---------------------------- MODULE Spec2Model ----------------------------
(***************************************************************************)
(* Model of the throughput tool (cmd/throughput): week-range computation,  *)
(* PR filtering, weekly aggregation, percentile computation and monthly    *)
(* aggregation.                                                            *)
(*                                                                         *)
(* Representation choices:                                                 *)
(*  - a time.Time holding a date at 00:00:00 UTC is the number of days     *)
(*    since 1970-01-01; an epoch (Unix()) is a number of seconds;          *)
(*  - a float64 is an exact rational [num, den] in lowest terms with       *)
(*    den > 0; binary rounding error is not modelled;                      *)
(*  - a string that the code transforms (a login) is a sequence of         *)
(*    one-character strings.                                               *)
(***************************************************************************)
EXTENDS Integers, Sequences, FiniteSets, TLC

VARIABLES
    pc,            \* position of main(): which stage has completed
    now,           \* time.Now() as epoch seconds
    cfgWeeks,      \* cfg.weeks
    weekRanges,    \* []weekRange returned by computeWeekRanges
    allPRs,        \* []PR returned by fetchAllPRs
    filtered,      \* []enrichedPR returned by filterPRs
    allWeekStats,  \* []weekStats returned by aggregateCSV
    monthRanges,   \* []weekRange returned by aggregateMonthly
    monthStats,    \* []weekStats returned by aggregateMonthly
    values,        \* argument of percentile / median / p90
    pct,           \* argument of percentile
    result,        \* value returned by percentile / median / p90
    topN,          \* argument n of computeTopContributors
    contributors,  \* []contributorStat returned by computeTopContributors
    windowPct,     \* argument windowPct of generateStats
    onaThreshold,  \* argument onaThreshold of generateStats
    periodLabel,   \* argument periodLabel of generateStats
    statsRows,     \* []consolidatedRow returned by generateStats
    xs,            \* first argument of pearsonCorrelation / mannWhitneyU
    ys,            \* second argument of pearsonCorrelation / mannWhitneyU
    corr,          \* (r, p) returned by pearsonCorrelation
    mwu,           \* (U, p, ok) returned by mannWhitneyU
    interp,        \* argument and result of interpretPValue
    beta,          \* the frame of regIncBeta: arguments, loop locals, position
    fetch,         \* fetchAllPRs: the goroutines, sem, mu, wg and allPRs
    gql,           \* graphqlQuery: the attempt loop and what it returns
    html           \* generateHTML: the window description

\* the arguments and results of the analyses that follow the aggregation
contribVars == <<topN, contributors>>
statsVars == <<windowPct, onaThreshold, periodLabel, statsRows>>
corrVars == <<xs, ys, corr, mwu>>
callVars == <<interp, beta, fetch, gql, html>>
analysisVars == <<contribVars, statsVars, corrVars, callVars>>

vars == <<pc, now, cfgWeeks, weekRanges, allPRs, filtered, allWeekStats,
          monthRanges, monthStats, values, pct, result, analysisVars>>

-----------------------------------------------------------------------------
(* Bounds of the model *)

\* computeWeekRanges alone: days of `now` explored from BaseDay on, and weeks
NowSpan == 14
WeeksMax == 6

\* 2026-02-16, a Monday, as days since 1970-01-01
BaseDay == 20500

SecondsPerDay == 86400

-----------------------------------------------------------------------------
(* Exact rationals standing for float64 values *)

RECURSIVE GCD(_, _)
GCD(a, b) == IF b = 0 THEN a ELSE GCD(b, a % b)

Abs(x) == IF x < 0 THEN -x ELSE x

Frac(n, d) ==
    LET g == GCD(Abs(n), d)
    IN  [num |-> n \div g, den |-> d \div g]

R(n) == [num |-> n, den |-> 1]

RAdd(a, b) == Frac(a.num * b.den + b.num * a.den, a.den * b.den)
RSub(a, b) == Frac(a.num * b.den - b.num * a.den, a.den * b.den)
RMul(a, b) == Frac(a.num * b.num, a.den * b.den)
RLe(a, b) == a.num * b.den <= b.num * a.den
RLt(a, b) == a.num * b.den < b.num * a.den

\* Go's int(f): truncation toward zero
Trunc(a) ==
    IF a.num >= 0 THEN a.num \div a.den ELSE -((-a.num) \div a.den)

-----------------------------------------------------------------------------
(* Calendar: the proleptic Gregorian calendar of package time *)

\* days since 1970-01-01 of year y, month m (1..12), day d
DaysFromCivil(y, m, d) ==
    LET yy  == IF m <= 2 THEN y - 1 ELSE y
        era == yy \div 400
        yoe == yy - era * 400
        mp  == IF m > 2 THEN m - 3 ELSE m + 9
        doy == (153 * mp + 2) \div 5 + d - 1
        doe == yoe * 365 + yoe \div 4 - yoe \div 100 + doy
    IN  era * 146097 + doe - 719468

\* [y, m, d] of a day number
CivilFromDays(z0) ==
    LET z   == z0 + 719468
        era == z \div 146097
        doe == z - era * 146097
        yoe == (doe - doe \div 1460 + doe \div 36524 - doe \div 146096) \div 365
        doy == doe - (365 * yoe + yoe \div 4 - yoe \div 100)
        mp  == (5 * doy + 2) \div 153
        d   == doy - (153 * mp + 2) \div 5 + 1
        m   == IF mp < 10 THEN mp + 3 ELSE mp - 9
        y   == yoe + era * 400 + (IF m <= 2 THEN 1 ELSE 0)
    IN  [y |-> y, m |-> m, d |-> d]

\* time.Date(y, m, d, 0, 0, 0, 0, time.UTC) with month and day normalised
Date(y, m, d) ==
    LET m0 == m - 1
        yn == y + m0 \div 12
        mn == (m0 % 12) + 1
    IN  DaysFromCivil(yn, mn, 1) + d - 1

\* t.AddDate(0, months, days) on a date
AddDate(day, months, days) ==
    LET c == CivilFromDays(day)
    IN  Date(c.y, c.m + months, c.d + days)

\* t.Weekday(): Sunday = 0 ... Saturday = 6 (1970-01-01 was a Thursday)
Weekday(day) == (day + 4) % 7

\* t.Unix() of a date at 00:00:00 UTC
Unix(day) == day * SecondsPerDay

\* the date of an epoch: time.Date(t.Year(), t.Month(), t.Day(), 0, ...)
DayOf(epoch) == epoch \div SecondsPerDay

-----------------------------------------------------------------------------
(* main.go: computeWeekRanges *)

\* mutant: a week's end date is 7 days after its start
RangeFromShort(startDate, i) ==
    LET ws == AddDate(startDate, 0, 7 * i)
        we == AddDate(ws, 0, 7)
    IN  [start |-> ws, end |-> we]

RangeFrom(startDate, i) ==
    LET ws == AddDate(startDate, 0, 7 * i)
        we == AddDate(ws, 0, 6)
    IN  [start |-> ws, end |-> we]

computeWeekRanges(nw, weeks) ==
    LET today           == DayOf(nw)
        daysSinceMonday == (Weekday(today) + 6) % 7
        currentMonday   == AddDate(today, 0, -daysSinceMonday)
        startDate       == AddDate(currentMonday, 0, -7 * weeks)
    IN  [i \in 1..weeks |-> RangeFrom(startDate, i - 1)]

\* aggregateCSV's weekBounds: inclusive [start 00:00:00, end 23:59:59]
startEpoch(wr) == Unix(wr.start)

\* mutant: the end bound is the end date at 00:00:00
endEpochMidnight(wr) == Unix(wr.end)

endEpoch(wr) == Unix(wr.end) + 23 * 3600 + 59 * 60 + 59

-----------------------------------------------------------------------------
(* State machine: main() *)

\* a p-value: a literal ("exact", the value in stat), or the two-tailed tail
\* probability 2*tDistCDF(-|t|, df) ("t") or 2*normalCDF(-|z|) ("normal") of a
\* statistic whose square is stat
PExact(v) == [kind |-> "exact", df |-> 0, stat |-> v]

POne == PExact(R(1))

\* r as its sign and its square, since r = cov / sqrt(varX*varY)
RZero == [sign |-> 0, sq |-> R(0)]

\* no call of interpretPValue, regIncBeta, fetchAllPRs, graphqlQuery or
\* generateHTML has been made
InitCalls ==
    /\ interp = [p |-> R(0), label |-> ""]
    /\ beta = [pc |-> "idle"]
    /\ fetch = [pc |-> "idle"]
    /\ gql = [pc |-> "idle"]
    /\ html = [windowDesc |-> <<>>]

InitAnalysis ==
    /\ InitCalls
    /\ topN = 0
    /\ contributors = <<>>
    /\ windowPct = 0
    /\ onaThreshold = R(0)
    /\ periodLabel = "week"
    /\ statsRows = <<>>
    /\ xs = <<>>
    /\ ys = <<>>
    /\ corr = [r |-> RZero, p |-> POne]
    /\ mwu = [u |-> R(0), p |-> POne, ok |-> FALSE]

InitCommon ==
    /\ InitAnalysis
    /\ pc = "start"
    /\ now = 0
    /\ cfgWeeks = 0
    /\ weekRanges = <<>>
    /\ allPRs = <<>>
    /\ filtered = <<>>
    /\ allWeekStats = <<>>
    /\ monthRanges = <<>>
    /\ monthStats = <<>>
    /\ values = <<>>
    /\ pct = R(0)
    /\ result = R(0)

\* now := time.Now(); weekRanges := computeWeekRanges(now, cfg.weeks)
ComputeWeekRanges(nows, maxWeeks) ==
    /\ pc = "start"
    /\ \E n \in nows, w \in 1..maxWeeks :
          /\ now' = n
          /\ cfgWeeks' = w
          /\ weekRanges' = computeWeekRanges(n, w)
    /\ pc' = "weeks"
    /\ UNCHANGED <<allPRs, filtered, allWeekStats, monthRanges, monthStats,
                   values, pct, result,
                   analysisVars>>

\* candidate clock readings: first and last second of each explored day
WeeksNows ==
    { Unix(BaseDay + k) + s : k \in 0..(NowSpan - 1), s \in {0, SecondsPerDay - 1} }

NextWeeks == ComputeWeekRanges(WeeksNows, WeeksMax)

SpecWeeks == InitCommon /\ [][NextWeeks]_vars

-----------------------------------------------------------------------------
(* metrics.go: percentile, median, p90 *)

\* sort.Float64s on a copy: insertion of x into an ascending sequence
RECURSIVE Insert(_, _)
Insert(x, s) ==
    IF s = <<>> THEN <<x>>
    ELSE IF RLe(x, Head(s)) THEN <<x>> \o s
    ELSE <<Head(s)>> \o Insert(x, Tail(s))

RECURSIVE SortFloat64s(_)
SortFloat64s(s) ==
    IF s = <<>> THEN <<>> ELSE Insert(Head(s), SortFloat64s(Tail(s)))

\* the sentinel returned for "no data"
NoData == R(-1)

\* idx := (pct / 100.0) * float64(n-1)
percentileIdx(n, p) == RMul(RMul(p, Frac(1, 100)), R(n - 1))

\* lower := int(idx), clamped at 0
percentileLower(n, p) ==
    LET lower == Trunc(percentileIdx(n, p))
    IN  IF lower < 0 THEN 0 ELSE lower

\* the 0-based indices of `sorted` that percentile reads for a list of n >= 2
percentileReads(n, p) ==
    LET lower == percentileLower(n, p)
    IN  IF lower >= n - 1 THEN {n - 1} ELSE {lower, lower + 1}

percentileOf(sorted, p) ==
    LET n == Len(sorted)
    IN  IF n = 0 THEN NoData
        ELSE IF n = 1 THEN sorted[1]
        ELSE LET idx   == percentileIdx(n, p)
                 lower == percentileLower(n, p)
             IN  IF lower >= n - 1 THEN sorted[n]
                 ELSE LET frac == RSub(idx, R(lower))
                      IN  RAdd(sorted[lower + 1],
                               RMul(frac, RSub(sorted[lower + 2], sorted[lower + 1])))

\* mutant: the copy is not sorted before indexing
percentileUnsorted(vs, p) == percentileOf(vs, p)

\* mutant: an empty list yields 0 instead of the sentinel
percentileZeroForEmpty(vs, p) ==
    IF Len(vs) = 0 THEN R(0) ELSE percentileOf(SortFloat64s(vs), p)

percentile(vs, p) == percentileOf(SortFloat64s(vs), p)

median(vs) == percentile(vs, R(50))

p90(vs) == percentile(vs, R(90))

-----------------------------------------------------------------------------
(* State machine: calls of percentile, median and p90 on bounded inputs *)

\* longest value list and largest value (in halves) explored
PMaxLen == 3
PMaxVal == 3

PValues == { Frac(k, 2) : k \in 0..PMaxVal }

RECURSIVE SeqsUpTo(_, _)
SeqsUpTo(S, n) ==
    IF n = 0 THEN {<<>>}
    ELSE LET shorter == SeqsUpTo(S, n - 1)
         IN  shorter \cup { Append(s, x) : s \in { t \in shorter : Len(t) = n - 1 }, x \in S }

PPcts ==
    { R(q) : q \in { k \in 0..100 : k % 5 = 0 } \cup {-50, 150} }
        \cup { Frac(1, 2), Frac(999, 10) }

InitPercentile ==
    /\ InitAnalysis
    /\ pc = "start"
    /\ now = 0
    /\ cfgWeeks = 0
    /\ weekRanges = <<>>
    /\ allPRs = <<>>
    /\ filtered = <<>>
    /\ allWeekStats = <<>>
    /\ monthRanges = <<>>
    /\ monthStats = <<>>
    /\ values \in SeqsUpTo(PValues, PMaxLen)
    /\ pct \in PPcts
    /\ result = R(0)

CallPercentile ==
    /\ pc = "start"
    /\ result' = percentile(values, pct)
    /\ pc' = "percentile"
    /\ UNCHANGED <<now, cfgWeeks, weekRanges, allPRs, filtered, allWeekStats,
                   monthRanges, monthStats, values, pct,
                   analysisVars>>

CallMedian ==
    /\ pc = "start"
    /\ result' = median(values)
    /\ pc' = "median"
    /\ UNCHANGED <<now, cfgWeeks, weekRanges, allPRs, filtered, allWeekStats,
                   monthRanges, monthStats, values, pct,
                   analysisVars>>

CallP90 ==
    /\ pc = "start"
    /\ result' = p90(values)
    /\ pc' = "p90"
    /\ UNCHANGED <<now, cfgWeeks, weekRanges, allPRs, filtered, allWeekStats,
                   monthRanges, monthStats, values, pct,
                   analysisVars>>

NextPercentile == CallPercentile \/ CallMedian \/ CallP90

SpecPercentile == InitPercentile /\ [][NextPercentile]_vars

-----------------------------------------------------------------------------
(* metrics.go: filterPRs *)

\* strings.ToLower on the letters that occur in the explored logins
UpperLetters == <<"A", "B", "L", "N", "O", "X">>
LowerLetters == <<"a", "b", "l", "n", "o", "x">>

ToLowerChar(c) ==
    IF \E i \in 1..Len(UpperLetters) : UpperLetters[i] = c
    THEN LowerLetters[CHOOSE i \in 1..Len(UpperLetters) : UpperLetters[i] = c]
    ELSE c

ToLower(str) == [i \in 1..Len(str) |-> ToLowerChar(str[i])]

HasPrefix(str, prefix) ==
    /\ Len(str) >= Len(prefix)
    /\ \A i \in 1..Len(prefix) : str[i] = prefix[i]

\* math.Round(float64(secs) / 3600.0 * 100) / 100, for secs >= 0
RoundedHours(secs) == Frac((secs * 100 + 1800) \div 3600, 100)

\* an optional time (a nil pointer, a zero time.Time) is <<>>, a set one is <<t>>
IsSet(opt) == opt # <<>>

\* earliest non-zero authoredDate among the commits, <<>> if there is none
RECURSIVE earliestCommit(_, _)
earliestCommit(commits, earliest) ==
    IF commits = <<>> THEN earliest
    ELSE LET ad == Head(commits).authoredDate
         IN  earliestCommit(Tail(commits),
                 IF IsSet(ad) /\ (~IsSet(earliest) \/ ad[1] < earliest[1])
                 THEN ad ELSE earliest)

\* the loop body's skip conditions: bots, excluded users, unmerged and draft PRs
skipped(pr, excludeSet) ==
    \/ pr.typename = "Bot"
    \/ ToLower(pr.login) \in excludeSet
    \/ ~IsSet(pr.mergedAt)
    \/ pr.isDraft

codingTimeOf(pr) ==
    LET hasReadyEvent == Len(pr.timelineItems) > 0 /\ IsSet(pr.timelineItems[1])
        earliest      == earliestCommit(pr.commits, <<>>)
    IN  IF hasReadyEvent /\ Len(pr.commits) > 0 /\ IsSet(earliest)
        THEN IF pr.timelineItems[1][1] >= earliest[1]
             THEN RoundedHours(pr.timelineItems[1][1] - earliest[1])
             ELSE R(0)
        ELSE NoData

reviewTimeOf(pr) ==
    LET hasReadyEvent == Len(pr.timelineItems) > 0 /\ IsSet(pr.timelineItems[1])
    IN  IF hasReadyEvent /\ pr.mergedAt[1] >= pr.timelineItems[1][1]
        THEN RoundedHours(pr.mergedAt[1] - pr.timelineItems[1][1])
        ELSE NoData

reviewTurnaroundOf(pr) ==
    IF Len(pr.reviews) > 0 /\ IsSet(pr.reviews[1]) /\ pr.reviews[1][1] >= pr.createdAt
    THEN RoundedHours(pr.reviews[1][1] - pr.createdAt)
    ELSE NoData

\* mutant: the author keeps the login as fetched, lower-casing only the exclusion test
authorLoginAsFetched(pr) == pr.login

authorLoginOf(pr) == ToLower(pr.login)

enrich(pr) ==
    [ mergedEpoch      |-> pr.mergedAt[1],
      codingTimeHours  |-> codingTimeOf(pr),
      reviewTimeHours  |-> reviewTimeOf(pr),
      reviewTurnaround |-> reviewTurnaroundOf(pr),
      authorLogin      |-> authorLoginOf(pr),
      onaInvolved      |-> \/ HasPrefix(ToLower(pr.login), <<"o", "n", "a", "-">>)
                           \/ \E i \in 1..Len(pr.commits) : pr.commits[i].onaCoauthor,
      isRevert         |-> pr.titleRevert ]

RECURSIVE filterPRs(_, _)
filterPRs(prs, excludeSet) ==
    IF prs = <<>> THEN <<>>
    ELSE IF skipped(Head(prs), excludeSet) THEN filterPRs(Tail(prs), excludeSet)
    ELSE <<enrich(Head(prs))>> \o filterPRs(Tail(prs), excludeSet)

-----------------------------------------------------------------------------
(* html.go: aggregateCSV *)

\* index of the first week whose bounds contain the merge epoch, 0 if none
weekIndexOf(pr, weeks) ==
    LET hits == { i \in 1..Len(weeks) :
                    /\ pr.mergedEpoch >= startEpoch(weeks[i])
                    /\ pr.mergedEpoch <= endEpoch(weeks[i]) }
    IN  IF hits = {} THEN 0 ELSE CHOOSE i \in hits : \A j \in hits : i <= j

emptyBucket ==
    [ count |-> 0, onaCount |-> 0, revertCount |-> 0,
      codingTimes |-> <<>>, reviewTimes |-> <<>>, turnaroundTimes |-> <<>>,
      authors |-> {} ]

\* mutant: durations are appended without the >= 0 tests
addToBucketUnguarded(b, pr) ==
    [ count           |-> b.count + 1,
      onaCount        |-> b.onaCount + (IF pr.onaInvolved THEN 1 ELSE 0),
      revertCount     |-> b.revertCount + (IF pr.isRevert THEN 1 ELSE 0),
      codingTimes     |-> Append(b.codingTimes, pr.codingTimeHours),
      reviewTimes     |-> Append(b.reviewTimes, pr.reviewTimeHours),
      turnaroundTimes |-> Append(b.turnaroundTimes, pr.reviewTurnaround),
      authors         |-> b.authors \cup {pr.authorLogin} ]

addToBucket(b, pr) ==
    [ count           |-> b.count + 1,
      onaCount        |-> b.onaCount + (IF pr.onaInvolved THEN 1 ELSE 0),
      revertCount     |-> b.revertCount + (IF pr.isRevert THEN 1 ELSE 0),
      codingTimes     |-> IF RLe(R(0), pr.codingTimeHours)
                          THEN Append(b.codingTimes, pr.codingTimeHours)
                          ELSE b.codingTimes,
      reviewTimes     |-> IF RLe(R(0), pr.reviewTimeHours)
                          THEN Append(b.reviewTimes, pr.reviewTimeHours)
                          ELSE b.reviewTimes,
      turnaroundTimes |-> IF RLe(R(0), pr.reviewTurnaround)
                          THEN Append(b.turnaroundTimes, pr.reviewTurnaround)
                          ELSE b.turnaroundTimes,
      authors         |-> b.authors \cup {pr.authorLogin} ]

RECURSIVE bucketPRs(_, _, _)
bucketPRs(prs, weeks, buckets) ==
    IF prs = <<>> THEN buckets
    ELSE LET i == weekIndexOf(Head(prs), weeks)
         IN  bucketPRs(Tail(prs), weeks,
                 IF i = 0 THEN buckets
                 ELSE [buckets EXCEPT ![i] = addToBucket(@, Head(prs))])

bucketsOf(prs, weeks) ==
    bucketPRs(prs, weeks, [i \in 1..Len(weeks) |-> emptyBucket])

\* mutant: a fraction of the PRs instead of a percentage
pctOfFraction(flagCount, count) ==
    IF count > 0 THEN Frac(flagCount, count) ELSE R(0)

\* float64(flagCount) / float64(count) * 100, 0 for a week without PRs
pctOf(flagCount, count) ==
    IF count > 0 THEN RMul(Frac(flagCount, count), R(100)) ELSE R(0)

weekStatsOf(b) ==
    LET uniqueAuthors == Cardinality(b.authors)
    IN  [ prsMerged        |-> b.count,
          uniqueAuthors    |-> uniqueAuthors,
          prsPerEngineer   |-> IF uniqueAuthors > 0
                               THEN Frac(b.count, uniqueAuthors) ELSE R(0),
          medianCodingTime |-> median(b.codingTimes),
          medianReviewTime |-> median(b.reviewTimes),
          pctOnaInvolved   |-> pctOf(b.onaCount, b.count),
          pctReverts       |-> pctOf(b.revertCount, b.count) ]

aggregateCSV(prs, weeks) ==
    LET buckets == bucketsOf(prs, weeks)
    IN  [i \in 1..Len(weeks) |-> weekStatsOf(buckets[i])]

-----------------------------------------------------------------------------
(* State machine: fetch, filter and weekly aggregation *)

\* most PRs fetched, and most weeks asked for, in the aggregation runs
MaxPRs == 2
AggMaxWeeks == 2

\* cfg.excludeSet: lower-cased logins
ExcludeSet == { <<"x">> }

\* the Monday of the week of the aggregation runs' clock reading
AggMonday == BaseDay - ((Weekday(BaseDay) + 6) % 7)

AggNows == { Unix(BaseDay) + 12 * 3600 }

\* merge instants around the bounds of the last two weeks before AggMonday
MergeTimes ==
    { Unix(AggMonday - 7),            \* first second of the last week
      Unix(AggMonday - 7) + 12 * 3600,
      Unix(AggMonday - 1),            \* last day of the last week, 00:00:00
      Unix(AggMonday) - 1,            \* last second of the last week
      Unix(AggMonday),                \* first second after the window
      Unix(AggMonday - 7) - 1,        \* last second of the week before
      Unix(AggMonday - 14) - 1 }      \* last second of the week before that

Logins ==
    { <<"a", "l">>, <<"A", "L">>, <<"A", "l">>, <<"b", "o">>,
      <<"O", "n", "a", "-", "b">>, <<"X">> }

\* shapes of a fetched PR; times are seconds before the merge (timeline,
\* commits, creation) or after the creation (reviews)
Profiles ==
    LET base == [ typename |-> "User", isDraft |-> FALSE, merged |-> TRUE,
                  createdBefore |-> 36000, timelineItems |-> <<>>,
                  commits |-> << [before |-> <<25200>>, onaCoauthor |-> FALSE] >>,
                  reviews |-> <<>>, titleRevert |-> FALSE ]
    IN  { base,
          [base EXCEPT !.timelineItems = << <<7200>> >>,
                       !.commits = << [before |-> <<18000>>, onaCoauthor |-> FALSE] >>,
                       !.reviews = << <<3600>> >>],
          [base EXCEPT !.timelineItems = << <<14400>> >>,
                       !.commits = << [before |-> <<>>, onaCoauthor |-> FALSE],
                                      [before |-> <<21600>>, onaCoauthor |-> TRUE],
                                      [before |-> <<20000>>, onaCoauthor |-> FALSE] >>,
                       !.reviews = << <<1800>> >>],
          [base EXCEPT !.timelineItems = << <<3700>> >>,
                       !.commits = << [before |-> <<3600>>, onaCoauthor |-> FALSE] >>,
                       !.reviews = << <<>> >>,
                       !.titleRevert = TRUE],
          [base EXCEPT !.timelineItems = << <<-600>> >>,
                       !.commits = << [before |-> <<7200>>, onaCoauthor |-> FALSE] >>,
                       !.reviews = << <<-60>> >>],
          [base EXCEPT !.timelineItems = << <<>> >>,
                       !.commits = <<>>,
                       !.reviews = << <<10800>> >>],
          [base EXCEPT !.timelineItems = << <<5400>> >>,
                       !.commits = <<>>],
          [base EXCEPT !.typename = "Bot"],
          [base EXCEPT !.isDraft = TRUE],
          [base EXCEPT !.merged = FALSE] }

BaseProfile ==
    CHOOSE p \in Profiles : p.timelineItems = << <<7200>> >>

MkPR(t, login, p) ==
    [ login         |-> login,
      typename      |-> p.typename,
      isDraft       |-> p.isDraft,
      mergedAt      |-> IF p.merged THEN <<t>> ELSE <<>>,
      createdAt     |-> t - p.createdBefore,
      timelineItems |-> [i \in 1..Len(p.timelineItems) |->
                            IF IsSet(p.timelineItems[i])
                            THEN <<t - p.timelineItems[i][1]>> ELSE <<>>],
      commits       |-> [i \in 1..Len(p.commits) |->
                            [ authoredDate |-> IF IsSet(p.commits[i].before)
                                               THEN <<t - p.commits[i].before[1]>>
                                               ELSE <<>>,
                              onaCoauthor  |-> p.commits[i].onaCoauthor ]],
      reviews       |-> [i \in 1..Len(p.reviews) |->
                            IF IsSet(p.reviews[i])
                            THEN <<t - p.createdBefore + p.reviews[i][1]>> ELSE <<>>],
      titleRevert   |-> p.titleRevert ]

\* the fetched PRs explored: every merge instant, every login and every shape,
\* each varied around PRs merged in the last week and in the week before
AggPRs ==
    LET anchors == { Unix(AggMonday - 7) + 12 * 3600, Unix(AggMonday - 7) - 1 }
    IN  { MkPR(t, <<"a", "l">>, BaseProfile) : t \in MergeTimes }
          \cup { MkPR(t, l, BaseProfile) : t \in anchors, l \in Logins }
          \cup { MkPR(t, <<"a", "l">>, q) : t \in anchors, q \in Profiles }

\* a goroutine of fetchAllPRs appends a fetched PR to allPRs
FetchPR(domain, maxPRs) ==
    /\ pc = "weeks"
    /\ Len(allPRs) < maxPRs
    /\ \E pr \in domain : allPRs' = Append(allPRs, pr)
    /\ UNCHANGED <<pc, now, cfgWeeks, weekRanges, filtered, allWeekStats,
                   monthRanges, monthStats, values, pct, result,
                   analysisVars>>

\* filtered := filterPRs(allPRs, cfg.excludeSet)
FilterPRs ==
    /\ pc = "weeks"
    /\ filtered' = filterPRs(allPRs, ExcludeSet)
    /\ pc' = "filtered"
    /\ UNCHANGED <<now, cfgWeeks, weekRanges, allPRs, allWeekStats,
                   monthRanges, monthStats, values, pct, result,
                   analysisVars>>

\* csv, allWeekStats := aggregateCSV(filtered, weekRanges)
AggregateCSV ==
    /\ pc = "filtered"
    /\ allWeekStats' = aggregateCSV(filtered, weekRanges)
    /\ pc' = "aggregated"
    /\ UNCHANGED <<now, cfgWeeks, weekRanges, allPRs, filtered,
                   monthRanges, monthStats, values, pct, result,
                   analysisVars>>

NextAgg ==
    \/ ComputeWeekRanges(AggNows, AggMaxWeeks)
    \/ FetchPR(AggPRs, MaxPRs)
    \/ FilterPRs
    \/ AggregateCSV

SpecAgg == InitCommon /\ [][NextAgg]_vars

\* fetched PRs for the order-independence runs: three different sets of
\* durations merged in one week, a case variant, a PR without durations and a
\* PR merged in the week before
OrderMaxPRs == 3

OrderPRs ==
    LET t0 == Unix(AggMonday - 7) + 12 * 3600
        withDurations == { q \in Profiles : Len(q.timelineItems) > 0 /\ Len(q.commits) > 0 }
    IN  { MkPR(t0, <<"a", "l">>, q) : q \in { r \in withDurations : r.timelineItems[1][1] > 0 } }
          \cup { MkPR(t0, <<"A", "L">>, BaseProfile),
                 MkPR(t0 + 60, <<"b", "o">>, CHOOSE q \in Profiles :
                                                q.timelineItems = <<>> /\ q.typename = "User"
                                                /\ ~q.isDraft /\ q.merged),
                 MkPR(Unix(AggMonday - 7) - 1, <<"b", "o">>, BaseProfile) }

NextOrder ==
    \/ ComputeWeekRanges(AggNows, AggMaxWeeks)
    \/ FetchPR(OrderPRs, OrderMaxPRs)
    \/ FilterPRs
    \/ AggregateCSV

SpecOrder == InitCommon /\ [][NextOrder]_vars

-----------------------------------------------------------------------------
(* monthly.go: aggregateMonthly, medianFloat *)

\* wr.start.Format("2006-01"): the calendar month of a date, as <<year, month>>
monthKey(day) == LET c == CivilFromDays(day) IN <<c.y, c.m>>

\* mutant: for an even count the upper middle value instead of the mean
medianFloatUpper(vals) ==
    IF Len(vals) = 0 THEN R(0)
    ELSE LET sorted == SortFloat64s(vals)
             n      == Len(sorted)
         IN  sorted[n \div 2 + 1]

medianFloat(vals) ==
    IF Len(vals) = 0 THEN R(0)
    ELSE LET sorted == SortFloat64s(vals)
             n      == Len(sorted)
         IN  IF n % 2 = 0
             THEN RMul(RAdd(sorted[n \div 2], sorted[n \div 2 + 1]), Frac(1, 2))
             ELSE sorted[n \div 2 + 1]

\* the grouping loop: order holds the month keys by first appearance, groups
\* maps a key to its monthGroup
RECURSIVE groupByMonth(_, _, _, _)
groupByMonth(weeks, i, order, groups) ==
    IF i > Len(weeks) THEN [order |-> order, groups |-> groups]
    ELSE LET wr      == weeks[i]
             key     == monthKey(wr.start)
             isNew   == key \notin DOMAIN groups
             c       == CivilFromDays(wr.start)
             firstOfMonth == Date(c.y, c.m, 1)
             lastOfMonth  == AddDate(firstOfMonth, 1, -1)
             g0      == IF isNew
                        THEN [month |-> key, start |-> firstOfMonth,
                              end |-> lastOfMonth, weeks |-> <<>>]
                        ELSE groups[key]
             g1      == [g0 EXCEPT !.weeks = Append(@, i),
                                   !.end = IF wr.end > @ THEN wr.end ELSE @]
         IN  groupByMonth(weeks, i + 1,
                          IF isNew THEN Append(order, key) ELSE order,
                          [k \in (DOMAIN groups) \cup {key} |->
                              IF k = key THEN g1 ELSE groups[k]])

\* mutant: the first week of the last group is tested instead of its last week
lastGroupIncompleteByFirstWeek(weeks, lg) ==
    LET lastOfMonth == AddDate(lg.start, 1, -1)
    IN  weeks[lg.weeks[1]].start < AddDate(lastOfMonth, 0, -6)

\* the last group's last week starts before the final 7 days of its month
lastGroupIncomplete(weeks, lg) ==
    LET lastOfMonth   == AddDate(lg.start, 1, -1)
        lastWeekStart == lg.weeks[Len(lg.weeks)]
    IN  weeks[lastWeekStart].start < AddDate(lastOfMonth, 0, -6)

\* the values of one field of the member weeks that have PRs (and, with
\* needSpeed, a review-speed median that is not negative), in week order
RECURSIVE memberVals(_, _, _, _)
memberVals(stats, members, needSpeed, fieldName) ==
    IF members = <<>> THEN <<>>
    ELSE LET ws == stats[Head(members)]
         IN  (IF ws.prsMerged > 0 /\ (needSpeed => RLe(R(0), ws.medianReviewSpeed))
              THEN <<ws[fieldName]>> ELSE <<>>)
                 \o memberVals(stats, Tail(members), needSpeed, fieldName)

RECURSIVE totalPRsOf(_, _)
totalPRsOf(stats, members) ==
    IF members = <<>> THEN 0
    ELSE stats[Head(members)].prsMerged + totalPRsOf(stats, Tail(members))

monthStatsOf(stats, g) ==
    LET prsPerEngVals   == memberVals(stats, g.weeks, FALSE, "prsPerEngineer")
        onaVals         == memberVals(stats, g.weeks, FALSE, "pctOnaInvolved")
        revertPctVals   == memberVals(stats, g.weeks, FALSE, "pctReverts")
        reviewSpeedVals == memberVals(stats, g.weeks, TRUE, "medianReviewSpeed")
        authorCounts    == memberVals(stats, g.weeks, FALSE, "uniqueAuthors")
        authorCountVals == [j \in 1..Len(authorCounts) |-> R(authorCounts[j])]
    IN  [ prsMerged         |-> totalPRsOf(stats, g.weeks),
          uniqueAuthors     |-> Trunc(medianFloat(authorCountVals)),
          prsPerEngineer    |-> medianFloat(prsPerEngVals),
          medianReviewSpeed |-> IF Len(reviewSpeedVals) = 0 THEN R(-1)
                                ELSE medianFloat(reviewSpeedVals),
          medianCycleTime   |-> R(-1),
          pctOnaInvolved    |-> medianFloat(onaVals),
          pctReverts        |-> medianFloat(revertPctVals) ]

\* the month keys kept: the last one is dropped when its group is incomplete
keptOrder(weeks, grouped) ==
    IF Len(grouped.order) > 0
       /\ lastGroupIncomplete(weeks, grouped.groups[grouped.order[Len(grouped.order)]])
    THEN SubSeq(grouped.order, 1, Len(grouped.order) - 1)
    ELSE grouped.order

\* the result loop: one range and one weekStats per kept month, in order
monthsOf(stats, groups, order) ==
    [ ranges |-> [j \in 1..Len(order) |->
                     [start |-> groups[order[j]].start,
                      end   |-> groups[order[j]].end]],
      stats  |-> [j \in 1..Len(order) |-> monthStatsOf(stats, groups[order[j]])] ]

\* returns [ranges, stats]; nil slices are empty sequences
aggregateMonthly(weeks, stats) ==
    IF Len(weeks) = 0 THEN [ranges |-> <<>>, stats |-> <<>>]
    ELSE LET grouped == groupByMonth(weeks, 1, <<>>, <<>>)
         IN  monthsOf(stats, grouped.groups, keptOrder(weeks, grouped))

-----------------------------------------------------------------------------
(* State machine: monthly aggregation of weekly stats *)

\* most weeks asked for, and consecutive Mondays explored as the clock reading
MonthlyMaxWeeks == 5
MonthlyNowWeeks == 6

\* clock readings on consecutive Mondays from 2026-02-16 on, and from
\* 2026-05-04 on (May 2026 ends on a Sunday)
MonthlyNows ==
    { Unix(AggMonday + 7 * k) + 3600 : k \in 0..(MonthlyNowWeeks - 1) }
        \cup { Unix(AggMonday + 7 * (11 + k)) + 3600 : k \in 0..(MonthlyNowWeeks - 1) }

\* weekStats values that aggregateCSV returns: a week without PRs, and weeks
\* with PRs with and without a review-speed median
MonthlyWeekStats ==
    { [ prsMerged |-> 0, uniqueAuthors |-> 0, prsPerEngineer |-> R(0),
        medianReviewSpeed |-> R(-1), medianCycleTime |-> R(-1),
        pctOnaInvolved |-> R(0), pctReverts |-> R(0) ],
      [ prsMerged |-> 4, uniqueAuthors |-> 2, prsPerEngineer |-> R(2),
        medianReviewSpeed |-> Frac(7, 2), medianCycleTime |-> R(30),
        pctOnaInvolved |-> R(50), pctReverts |-> R(25) ],
      [ prsMerged |-> 3, uniqueAuthors |-> 3, prsPerEngineer |-> R(1),
        medianReviewSpeed |-> R(-1), medianCycleTime |-> R(-1),
        pctOnaInvolved |-> R(0), pctReverts |-> R(0) ],
      [ prsMerged |-> 1, uniqueAuthors |-> 1, prsPerEngineer |-> R(1),
        medianReviewSpeed |-> R(10), medianCycleTime |-> R(12),
        pctOnaInvolved |-> R(100), pctReverts |-> R(0) ] }

\* csv, allWeekStats := aggregateCSV(...): the weekly stats handed on
WeeklyStatsReturned ==
    /\ pc = "weeks"
    /\ allWeekStats' \in [1..Len(weekRanges) -> MonthlyWeekStats]
    /\ pc' = "aggregated"
    /\ UNCHANGED <<now, cfgWeeks, weekRanges, allPRs, filtered,
                   monthRanges, monthStats, values, pct, result,
                   analysisVars>>

\* monthRanges, monthStats := aggregateMonthly(weekRanges, allWeekStats)
AggregateMonthly ==
    /\ pc = "aggregated"
    /\ LET out == aggregateMonthly(weekRanges, allWeekStats)
       IN  /\ monthRanges' = out.ranges
           /\ monthStats' = out.stats
    /\ pc' = "monthly"
    /\ UNCHANGED <<now, cfgWeeks, weekRanges, allPRs, filtered, allWeekStats,
                   values, pct, result,
                   analysisVars>>

NextMonthly ==
    \/ ComputeWeekRanges(MonthlyNows, MonthlyMaxWeeks)
    \/ WeeklyStatsReturned
    \/ AggregateMonthly

SpecMonthly == InitCommon /\ [][NextMonthly]_vars

-----------------------------------------------------------------------------
(* contributors: computeTopContributors, countActiveWeeks *)

\* the byte of a character of the explored logins
ByteOf(c) ==
    CASE c = "-" -> 45
      [] c = "a" -> 97
      [] c = "b" -> 98
      [] c = "l" -> 108
      [] c = "n" -> 110
      [] c = "o" -> 111
      [] c = "x" -> 120
      [] c = "A" -> 65
      [] c = "B" -> 66
      [] c = "L" -> 76
      [] c = "N" -> 78
      [] c = "O" -> 79
      [] c = "X" -> 88

\* Go's < on strings: bytewise lexicographic order
RECURSIVE StringLess(_, _)
StringLess(a, b) ==
    IF b = <<>> THEN FALSE
    ELSE IF a = <<>> THEN TRUE
    ELSE IF ByteOf(Head(a)) # ByteOf(Head(b)) THEN ByteOf(Head(a)) < ByteOf(Head(b))
    ELSE StringLess(Tail(a), Tail(b))

\* byAuthor[login]: the records of an author, in record order
RECURSIVE authorPRsOf(_, _)
authorPRsOf(prs, login) ==
    IF prs = <<>> THEN <<>>
    ELSE (IF Head(prs).authorLogin = login THEN <<Head(prs)>> ELSE <<>>)
            \o authorPRsOf(Tail(prs), login)

\* the keys of byAuthor
authorsOf(prs) == { prs[i].authorLogin : i \in 1..Len(prs) }

\* mutant: authors are compared by count only
rankedLessByCount(a, b) == a.count > b.count

\* the less function given to sort.Slice
rankedLess(a, b) ==
    IF a.count # b.count THEN a.count > b.count
    ELSE StringLess(a.login, b.login)

\* sort.Slice(ranked, less): each entry is inserted before the first entry it
\* is less than
RECURSIVE InsertRanked(_, _)
InsertRanked(sorted, e) ==
    IF sorted = <<>> THEN <<e>>
    ELSE IF rankedLess(e, Head(sorted)) THEN <<e>> \o sorted
    ELSE <<Head(sorted)>> \o InsertRanked(Tail(sorted), e)

RECURSIVE SortRanked(_)
SortRanked(ranked) ==
    IF ranked = <<>> THEN <<>>
    ELSE InsertRanked(SortRanked(SubSeq(ranked, 1, Len(ranked) - 1)),
                      ranked[Len(ranked)])

\* ranked: one authorCount per key of byAuthor, appended in the order in which
\* the map is iterated (mapOrder, a sequence of the keys), then sorted
rankedOf(prs, mapOrder) ==
    SortRanked([i \in 1..Len(mapOrder) |->
                   [login |-> mapOrder[i],
                    count |-> Len(authorPRsOf(prs, mapOrder[i]))]])

\* wb[i].endEpoch: wr.end.Unix() + 86399
contribEndEpoch(wr) == Unix(wr.end) + 86399

\* mutant: every record inside a week range counts, the inner loop never breaks
countActiveWeeksNoBreak(prs, weeks) ==
    IF Len(prs) = 0 THEN 0
    ELSE Cardinality({ e \in (1..Len(weeks)) \X (1..Len(prs)) :
                         /\ prs[e[2]].mergedEpoch >= Unix(weeks[e[1]].start)
                         /\ prs[e[2]].mergedEpoch <= contribEndEpoch(weeks[e[1]]) })

\* how many week ranges contain at least one of the records
countActiveWeeks(prs, weeks) ==
    IF Len(prs) = 0 THEN 0
    ELSE Cardinality({ w \in 1..Len(weeks) :
                         \E i \in 1..Len(prs) :
                            /\ prs[i].mergedEpoch >= Unix(weeks[w].start)
                            /\ prs[i].mergedEpoch <= contribEndEpoch(weeks[w]) })

\* the first loop over authorPRs: [hasOna, firstOnaEpoch]
RECURSIVE firstOna(_, _)
firstOna(authorPRs, acc) ==
    IF authorPRs = <<>> THEN acc
    ELSE LET pr == Head(authorPRs)
         IN  firstOna(Tail(authorPRs),
                 IF pr.onaInvolved /\ (~acc.hasOna \/ pr.mergedEpoch < acc.firstOnaEpoch)
                 THEN [hasOna |-> TRUE, firstOnaEpoch |-> pr.mergedEpoch]
                 ELSE acc)

\* mutant: a record merged at the split instant counts as before
isBeforeInclusive(pr, firstOnaEpoch) == pr.mergedEpoch <= firstOnaEpoch

\* the test of the second loop: the record goes to beforePRs
isBefore(pr, firstOnaEpoch) == pr.mergedEpoch < firstOnaEpoch

\* the second loop: [beforePRs, afterPRs]
RECURSIVE splitPRs(_, _, _)
splitPRs(authorPRs, firstOnaEpoch, acc) ==
    IF authorPRs = <<>> THEN acc
    ELSE LET pr == Head(authorPRs)
         IN  splitPRs(Tail(authorPRs), firstOnaEpoch,
                 IF isBefore(pr, firstOnaEpoch)
                 THEN [acc EXCEPT !.beforePRs = Append(@, pr)]
                 ELSE [acc EXCEPT !.afterPRs = Append(@, pr)])

\* math.Round: to the nearest integer, halves away from zero
Round(a) ==
    IF a.num >= 0 THEN (2 * a.num + a.den) \div (2 * a.den)
    ELSE -((2 * (-a.num) + a.den) \div (2 * a.den))

\* math.Round(x * scale) / scale
RoundTo(a, scale) == Frac(Round(RMul(a, R(scale))), scale)

\* a / b for b # 0
RDiv(a, b) ==
    IF b.num > 0 THEN Frac(a.num * b.den, a.den * b.num)
    ELSE Frac(-(a.num * b.den), a.den * (-b.num))

\* mutant: PRs per week of the whole window, not per active week
rateOfPerWeek(count, active, nweeks) ==
    IF active > 0 THEN RoundTo(Frac(count, nweeks), 100) ELSE R(0)

\* beforeRate / afterRate: len(group) / active weeks, rounded to 2 decimals
rateOf(count, active, nweeks) ==
    IF active > 0 THEN RoundTo(Frac(count, active), 100) ELSE R(0)

contribPctChange(beforeRate, afterRate) ==
    IF RLt(R(0), beforeRate)
    THEN RoundTo(RMul(RDiv(RSub(afterRate, beforeRate), beforeRate), R(100)), 10)
    ELSE R(0)

\* the contributorStat of one author, given the split and the active weeks of
\* its two groups
contributorStatOfActive(login, authorPRs, hasOna, split, beforeActive, afterActive, nweeks) ==
    LET beforeRate == rateOf(Len(split.beforePRs), beforeActive, nweeks)
        afterRate  == rateOf(Len(split.afterPRs), afterActive, nweeks)
    IN  [ login        |-> login,
          totalPRs     |-> Len(authorPRs),
          beforeRate   |-> beforeRate,
          afterRate    |-> afterRate,
          pctChange    |-> contribPctChange(beforeRate, afterRate),
          hasOnaPRs    |-> hasOna,
          beforePRs    |-> split.beforePRs,
          afterPRs     |-> split.afterPRs,
          beforeActive |-> beforeActive,
          afterActive  |-> afterActive ]

\* the rates and the contributorStat of one author, given the split
contributorStatOfSplit(login, authorPRs, hasOna, weeks, split) ==
    contributorStatOfActive(login, authorPRs, hasOna, split,
        countActiveWeeks(split.beforePRs, weeks),
        countActiveWeeks(split.afterPRs, weeks), Len(weeks))

\* the body of the loop over the first n ranked authors; beforePRs, afterPRs,
\* beforeActive and afterActive are the loop's locals, kept next to the
\* contributorStat
contributorStatOf(prs, weeks, login) ==
    LET authorPRs == authorPRsOf(prs, login)
        fo        == firstOna(authorPRs, [hasOna |-> FALSE, firstOnaEpoch |-> 0])
    IN  contributorStatOfSplit(login, authorPRs, fo.hasOna, weeks,
            IF ~fo.hasOna THEN [beforePRs |-> authorPRs, afterPRs |-> <<>>]
            ELSE splitPRs(authorPRs, fo.firstOnaEpoch,
                          [beforePRs |-> <<>>, afterPRs |-> <<>>]))

\* mapOrder is the order in which the map byAuthor is iterated
computeTopContributors(prs, weeks, n, mapOrder) ==
    IF Len(prs) = 0 \/ n <= 0 THEN <<>>
    ELSE LET ranked == rankedOf(prs, mapOrder)
         IN  [idx \in 1..(IF n > Len(ranked) THEN Len(ranked) ELSE n) |->
                 contributorStatOf(prs, weeks, ranked[idx].login)]

-----------------------------------------------------------------------------
(* State machine: fetch, filter and the top contributors *)

\* most PRs fetched, most weeks asked for and largest n in the contributor runs
ContribMaxPRs == 4
ContribMaxWeeks == 3
ContribMaxN == 3

OnaProfile ==
    CHOOSE q \in Profiles : \E i \in 1..Len(q.commits) : q.commits[i].onaCoauthor

\* fetched PRs of three authors, merged in the three weeks before AggMonday;
\* one carries an Ona co-author and is merged at the instant of another PR of
\* its author, one is by an author whose login starts with "ona-"
ContribPRs ==
    LET t1 == Unix(AggMonday - 21) + 12 * 3600
        t2 == Unix(AggMonday - 14) + 12 * 3600
        t3 == Unix(AggMonday - 7) + 12 * 3600
    IN  { MkPR(t1, <<"a", "l">>, BaseProfile),
          MkPR(t2, <<"a", "l">>, BaseProfile),
          MkPR(t3, <<"a", "l">>, BaseProfile),
          MkPR(t2, <<"a", "l">>, OnaProfile),
          MkPR(t2, <<"b", "o">>, BaseProfile),
          MkPR(t3, <<"O", "n", "a", "-", "b">>, BaseProfile) }

\* the orders in which a map with the keys S can be iterated
MapOrders(S) ==
    { f \in [1..Cardinality(S) -> S] : \A i, j \in DOMAIN f : i # j => f[i] # f[j] }

\* topContribs := computeTopContributors(filtered, weekRanges, n)
ComputeTopContributors ==
    /\ pc = "filtered"
    /\ \E n \in (-1)..ContribMaxN, mapOrder \in MapOrders(authorsOf(filtered)) :
          /\ topN' = n
          /\ contributors' = computeTopContributors(filtered, weekRanges, n, mapOrder)
    /\ pc' = "contributors"
    /\ UNCHANGED <<now, cfgWeeks, weekRanges, allPRs, filtered, allWeekStats,
                   monthRanges, monthStats, values, pct, result,
                   statsVars, corrVars, callVars>>

NextContrib ==
    \/ ComputeWeekRanges(AggNows, ContribMaxWeeks)
    \/ FetchPR(ContribPRs, ContribMaxPRs)
    \/ FilterPRs
    \/ ComputeTopContributors

SpecContrib == InitCommon /\ [][NextContrib]_vars

-----------------------------------------------------------------------------
(* stats: generateStats, buildRow, trendWindow, thresholdWindow *)

\* allMetrics followed by the two metrics generateStats appends; field names
\* the weekStats field that extract reads, isInt a float64(...) conversion of
\* it, and valid the test: "prs" is prsMerged > 0, "builds" is buildRuns > 0,
\* "duration" is prsMerged > 0 and a value >= 0
metrics ==
    << [name |-> "prs_merged", field |-> "prsMerged", isInt |-> TRUE, valid |-> "prs"],
       [name |-> "unique_authors", field |-> "uniqueAuthors", isInt |-> TRUE, valid |-> "prs"],
       [name |-> "prs_per_engineer", field |-> "prsPerEngineer", isInt |-> FALSE, valid |-> "prs"],
       [name |-> "commits_per_engineer", field |-> "commitsPerEngineer", isInt |-> FALSE, valid |-> "prs"],
       [name |-> "pct_reverts", field |-> "pctReverts", isInt |-> FALSE, valid |-> "prs"],
       [name |-> "pct_ona_involved", field |-> "pctOnaInvolved", isInt |-> FALSE, valid |-> "prs"],
       [name |-> "build_runs", field |-> "buildRuns", isInt |-> TRUE, valid |-> "builds"],
       [name |-> "build_success_pct", field |-> "buildSuccessPct", isInt |-> FALSE, valid |-> "builds"],
       [name |-> "median_coding_time_hours", field |-> "medianCodingTime", isInt |-> FALSE, valid |-> "duration"],
       [name |-> "median_review_time_hours", field |-> "medianReviewTime", isInt |-> FALSE, valid |-> "duration"] >>

\* md.extract(ws)
extract(md, ws) == IF md.isInt THEN R(ws[md.field]) ELSE ws[md.field]

\* md.valid(ws)
valid(md, ws) ==
    CASE md.valid = "prs"      -> ws.prsMerged > 0
      [] md.valid = "builds"   -> ws.buildRuns > 0
      [] md.valid = "duration" -> ws.prsMerged > 0 /\ RLe(R(0), ws[md.field])

\* the values of a metric over the weeks that are valid for it, in order
RECURSIVE validValues(_, _)
validValues(weeks, md) ==
    IF weeks = <<>> THEN <<>>
    ELSE (IF valid(md, Head(weeks)) THEN <<extract(md, Head(weeks))>> ELSE <<>>)
            \o validValues(Tail(weeks), md)

RECURSIVE SumSeq(_)
SumSeq(vs) == IF vs = <<>> THEN R(0) ELSE RAdd(Head(vs), SumSeq(Tail(vs)))

\* math.Floor of a rational
Floor(a) ==
    IF a.num >= 0 THEN a.num \div a.den ELSE -(((-a.num) + a.den - 1) \div a.den)

\* mutant: the window size is rounded up
windowSizeOfCeil(n, wpct) ==
    LET w == -Floor(Frac(-(n * wpct), 100)) IN IF w < 1 THEN 1 ELSE w

\* int(math.Floor(float64(n) * float64(windowPct) / 100.0)), at least 1
windowSizeOf(n, wpct) ==
    LET w == Floor(Frac(n * wpct, 100)) IN IF w < 1 THEN 1 ELSE w

\* the indices i of values[i] read by the loop for i := 0; i < windowSize
firstWindow(n, windowSize) == 0..(windowSize - 1)

\* the indices read by the loop for i := n - windowSize; i < n
lastWindow(n, windowSize) == (n - windowSize)..(n - 1)

\* values[i] summed over the indices of a window, which are consecutive
sumOver(vals, window) ==
    IF window = {} THEN R(0)
    ELSE LET lo == CHOOSE i \in window : \A j \in window : i <= j
         IN  SumSeq([k \in 1..Cardinality(window) |-> vals[lo + k]])

\* the two window sums of trendWindow and their averages
trendAverages(vals, n, windowSize) ==
    [ firstAvg     |-> RDiv(sumOver(vals, firstWindow(n, windowSize)), R(windowSize)),
      lastAvg      |-> RDiv(sumOver(vals, lastWindow(n, windowSize)), R(windowSize)),
      n            |-> n,
      firstWinSize |-> windowSize,
      lastWinSize  |-> windowSize,
      ok           |-> TRUE ]

\* the averages of the first and of the last windowSize values of a metric
trendWindow(weeks, md, wpct) ==
    LET vals == validValues(weeks, md)
        n    == Len(vals)
    IN  IF n < 2
        THEN [firstAvg |-> R(0), lastAvg |-> R(0), n |-> n,
              firstWinSize |-> 0, lastWinSize |-> 0, ok |-> FALSE]
        ELSE trendAverages(vals, n, windowSizeOf(n, wpct))

\* mutant: a week at the threshold counts as below it
isBelowInclusive(ws, threshold) == RLe(ws.pctOnaInvolved, threshold)

\* the test of thresholdWindow's loop
isBelow(ws, threshold) == RLt(ws.pctOnaInvolved, threshold)

\* the weeks valid for a metric whose pctOnaInvolved is, or is not, below the
\* threshold: the values of the metric, in order
RECURSIVE thresholdValues(_, _, _, _)
thresholdValues(weeks, md, threshold, below) ==
    IF weeks = <<>> THEN <<>>
    ELSE LET ws == Head(weeks)
         IN  (IF valid(md, ws) /\ (isBelow(ws, threshold) = below)
              THEN <<extract(md, ws)>> ELSE <<>>)
                 \o thresholdValues(Tail(weeks), md, threshold, below)

\* the result of thresholdWindow given the two groups
thresholdAverages(belowVals, aboveVals) ==
    IF Len(belowVals) = 0 \/ Len(aboveVals) = 0
    THEN [firstAvg |-> R(0), lastAvg |-> R(0), n |-> 0,
          firstWinSize |-> 0, lastWinSize |-> 0, ok |-> FALSE]
    ELSE [firstAvg     |-> RDiv(SumSeq(belowVals), R(Len(belowVals))),
          lastAvg      |-> RDiv(SumSeq(aboveVals), R(Len(aboveVals))),
          n            |-> Len(belowVals) + Len(aboveVals),
          firstWinSize |-> Len(belowVals),
          lastWinSize  |-> Len(aboveVals),
          ok           |-> TRUE]

\* the averages of a metric over the weeks below and the weeks at or above
\* the threshold
thresholdWindow(weeks, md, threshold) ==
    thresholdAverages(thresholdValues(weeks, md, threshold, TRUE),
                      thresholdValues(weeks, md, threshold, FALSE))

\* fmt.Sprintf("%.Nf", v): the sign and the digits of v rounded to a multiple
\* of 1/scale, a half to the even digit
FormatFixed(v, scale) ==
    LET q   == RMul([num |-> Abs(v.num), den |-> v.den], R(scale))
        fl  == q.num \div q.den
        rem == RSub(q, R(fl))
        up  == \/ RLt(Frac(1, 2), rem)
               \/ (rem = Frac(1, 2) /\ fl % 2 = 1)
    IN  [neg |-> v.num < 0, digits |-> IF up THEN fl + 1 ELSE fl, scale |-> scale]

\* mutant: the percentage is taken of firstAvg + 1
pctChangeTextShifted(firstAvg, lastAvg) ==
    LET absChange == RSub(lastAvg, firstAvg)
        pctv      == RMul(RDiv(absChange, RAdd(firstAvg, R(1))), R(100))
    IN  [prefix |-> IF RLt(pctv, R(0)) THEN "" ELSE "+",
         number |-> FormatFixed(pctv, 10), unit |-> "%"]

\* the text of pctChange: a prefix, a formatted number and a unit
pctChangeText(firstAvg, lastAvg) ==
    LET absChange == RSub(lastAvg, firstAvg)
    IN  IF firstAvg # R(0)
        THEN LET pctv == RMul(RDiv(absChange, [num |-> Abs(firstAvg.num),
                                               den |-> firstAvg.den]), R(100))
             IN  [prefix |-> IF RLt(pctv, R(0)) THEN "" ELSE "+",
                  number |-> FormatFixed(pctv, 10), unit |-> "%"]
        ELSE IF lastAvg # R(0)
        THEN [prefix |-> IF RLt(absChange, R(0)) THEN "" ELSE "+",
              number |-> FormatFixed(absChange, 10), unit |-> ""]
        ELSE [prefix |-> "", number |-> FormatFixed(R(0), 10), unit |-> "%"]

\* the row of a metric given its window, <<>> when the window is not ok
rowOf(md, w, mode, threshold, label) ==
    IF ~w.ok THEN <<>>
    ELSE << [ metric          |-> md.name,
              windowSize      |-> w.firstWinSize,
              firstWindowSize |-> w.firstWinSize,
              lastWindowSize  |-> w.lastWinSize,
              n               |-> w.n,
              firstAvg        |-> w.firstAvg,
              lastAvg         |-> w.lastAvg,
              absChange       |-> RSub(w.lastAvg, w.firstAvg),
              pctChange       |-> pctChangeText(w.firstAvg, w.lastAvg),
              window          |-> [mode |-> mode, threshold |-> threshold,
                                   first |-> w.firstWinSize, last |-> w.lastWinSize,
                                   abbrev |-> IF label = "month" THEN "mo" ELSE "w"] ] >>

\* one consolidated row of a metric, as a sequence that is empty for nil
buildRow(md, validWeeks, wpct, threshold, label) ==
    IF RLt(R(0), threshold)
    THEN rowOf(md, thresholdWindow(validWeeks, md, threshold), "threshold",
               threshold, label)
    ELSE rowOf(md, trendWindow(validWeeks, md, wpct), "positional",
               threshold, label)

RECURSIVE totalOfNonZero(_)
totalOfNonZero(allStats) ==
    IF allStats = <<>> THEN [totalPRs |-> 0, nonZeroCount |-> 0]
    ELSE LET t == totalOfNonZero(Tail(allStats))
         IN  IF Head(allStats).prsMerged > 0
             THEN [totalPRs |-> t.totalPRs + Head(allStats).prsMerged,
                   nonZeroCount |-> t.nonZeroCount + 1]
             ELSE t

\* mutant: every week with PRs is kept
keptByActivityAll(ws, threshold) == ws.prsMerged > 0

\* the test of the filter loop, threshold being avgPRs * 0.10
keptByActivity(ws, threshold) ==
    ws.prsMerged > 0 /\ RLe(threshold, R(ws.prsMerged))

RECURSIVE activeWeeksOf(_, _)
activeWeeksOf(allStats, threshold) ==
    IF allStats = <<>> THEN <<>>
    ELSE (IF keptByActivity(Head(allStats), threshold) THEN <<Head(allStats)>> ELSE <<>>)
            \o activeWeeksOf(Tail(allStats), threshold)

\* the weeks that pass the activity filter; <<>> when there is no week with PRs
validWeeksOf(allStats) ==
    LET t == totalOfNonZero(allStats)
    IN  IF t.nonZeroCount = 0 THEN <<>>
        ELSE activeWeeksOf(allStats,
                 RMul(Frac(t.totalPRs, t.nonZeroCount), Frac(1, 10)))

RECURSIVE rowsOf(_, _, _, _, _)
rowsOf(mds, validWeeks, wpct, threshold, label) ==
    IF mds = <<>> THEN <<>>
    ELSE buildRow(Head(mds), validWeeks, wpct, threshold, label)
            \o rowsOf(Tail(mds), validWeeks, wpct, threshold, label)

\* the rows returned; a nil slice is the empty sequence
generateStats(allStats, wpct, threshold, label) ==
    IF totalOfNonZero(allStats).nonZeroCount = 0 THEN <<>>
    ELSE IF Len(validWeeksOf(allStats)) < 4 THEN <<>>
    ELSE rowsOf(metrics, validWeeksOf(allStats), wpct, threshold, label)

-----------------------------------------------------------------------------
(* State machine: the weekly stats and generateStats *)

\* most weeks aggregated in the stats runs
StatsMaxWeeks == 5

\* weekStats values: a week without PRs, three busy weeks that differ in their
\* Ona share, reverts, builds and durations, and a week with 2 PRs
StatsWeekStats ==
    { [ prsMerged |-> 0, uniqueAuthors |-> 0, prsPerEngineer |-> R(0),
        commitsPerEngineer |-> R(0), pctReverts |-> R(0), pctOnaInvolved |-> R(0),
        buildRuns |-> 0, buildSuccessPct |-> R(0),
        medianCodingTime |-> R(-1), medianReviewTime |-> R(-1) ],
      [ prsMerged |-> 38, uniqueAuthors |-> 4, prsPerEngineer |-> Frac(19, 2),
        commitsPerEngineer |-> R(20), pctReverts |-> R(0), pctOnaInvolved |-> R(0),
        buildRuns |-> 0, buildSuccessPct |-> R(0),
        medianCodingTime |-> R(-1), medianReviewTime |-> R(5) ],
      [ prsMerged |-> 20, uniqueAuthors |-> 5, prsPerEngineer |-> R(4),
        commitsPerEngineer |-> R(12), pctReverts |-> R(5), pctOnaInvolved |-> R(50),
        buildRuns |-> 10, buildSuccessPct |-> R(90),
        medianCodingTime |-> Frac(5, 2), medianReviewTime |-> R(1) ],
      [ prsMerged |-> 40, uniqueAuthors |-> 8, prsPerEngineer |-> R(5),
        commitsPerEngineer |-> R(10), pctReverts |-> R(0), pctOnaInvolved |-> R(75),
        buildRuns |-> 20, buildSuccessPct |-> R(95),
        medianCodingTime |-> R(4), medianReviewTime |-> R(3) ],
      [ prsMerged |-> 2, uniqueAuthors |-> 2, prsPerEngineer |-> R(1),
        commitsPerEngineer |-> R(3), pctReverts |-> R(50), pctOnaInvolved |-> R(100),
        buildRuns |-> 4, buildSuccessPct |-> R(75),
        medianCodingTime |-> R(1), medianReviewTime |-> R(-1) ] }

\* --compare-window-pct (1-49) with no threshold, and --compare-ona-threshold
StatsArgs ==
    { [windowPct |-> 1, onaThreshold |-> R(0), periodLabel |-> "week"],
      [windowPct |-> 25, onaThreshold |-> R(0), periodLabel |-> "month"],
      [windowPct |-> 49, onaThreshold |-> R(0), periodLabel |-> "week"],
      [windowPct |-> 5, onaThreshold |-> R(50), periodLabel |-> "week"],
      [windowPct |-> 5, onaThreshold |-> R(100), periodLabel |-> "month"] }

\* aggregateCSV appends the weekStats of the next week
AppendWeekStats ==
    /\ pc = "start"
    /\ Len(allWeekStats) < StatsMaxWeeks
    /\ \E ws \in StatsWeekStats : allWeekStats' = Append(allWeekStats, ws)
    /\ UNCHANGED <<pc, now, cfgWeeks, weekRanges, allPRs, filtered,
                   monthRanges, monthStats, values, pct, result, analysisVars>>

\* statsRows := generateStats(allWeekStats, windowPct, onaThreshold, periodLabel)
GenerateStats ==
    /\ pc = "start"
    /\ \E a \in StatsArgs :
          /\ windowPct' = a.windowPct
          /\ onaThreshold' = a.onaThreshold
          /\ periodLabel' = a.periodLabel
          /\ statsRows' = generateStats(allWeekStats, a.windowPct, a.onaThreshold,
                                        a.periodLabel)
    /\ pc' = "stats"
    /\ UNCHANGED <<now, cfgWeeks, weekRanges, allPRs, filtered, allWeekStats,
                   monthRanges, monthStats, values, pct, result,
                   contribVars, corrVars, callVars>>

NextStats == AppendWeekStats \/ GenerateStats

SpecStats == InitCommon /\ [][NextStats]_vars

-----------------------------------------------------------------------------
(* stats: pearsonCorrelation, mannWhitneyU *)

\* 0/0 and the values computed from it
RNaN == [sign |-> 2, sq |-> R(0)]
PNaN == [kind |-> "nan", df |-> 0, stat |-> R(0)]

meanOf(vs) == RDiv(SumSeq(vs), R(Len(vs)))

\* the sum over i of (a[i] - meanA) * (b[i] - meanB)
sumOfProducts(a, meanA, b, meanB) ==
    SumSeq([i \in 1..Len(a) |-> RMul(RSub(a[i], meanA), RSub(b[i], meanB))])

\* mutant: only the variance of x is tested
zeroVarianceOfX(varX, varY) == varX = R(0)

\* varX == 0 || varY == 0
zeroVariance(varX, varY) == varX = R(0) \/ varY = R(0)

\* r = cov / math.Sqrt(varX*varY), clamped to [-1, 1]
pearsonR(cov, varX, varY) ==
    IF RMul(varX, varY) = R(0) THEN RNaN
    ELSE [sign |-> IF cov.num > 0 THEN 1 ELSE IF cov.num < 0 THEN -1 ELSE 0,
          sq   |-> RDiv(RMul(cov, cov), RMul(varX, varY))]

\* p = 2 * tDistCDF(-|t|, df) with t = r * sqrt(df / (1 - r*r)): 0 for an
\* infinite t, 1 for t = 0
pearsonP(r, df) ==
    IF r = RNaN THEN PNaN
    ELSE IF r.sq = R(1) THEN PExact(R(0))
    ELSE IF r.sq = R(0) THEN POne
    ELSE [kind |-> "t", df |-> df,
          stat |-> RDiv(RMul(r.sq, R(df)), RSub(R(1), r.sq))]

\* the pair (r, p) for the clamped r
pearsonResult(r, df) == [r |-> r, p |-> pearsonP(r, df)]

tooFewForPearson(n) == n < 3

\* the result given cov, varX and varY
pearsonOfMoments(cov, varX, varY, n) ==
    IF zeroVariance(varX, varY) THEN [r |-> RZero, p |-> POne]
    ELSE pearsonResult(pearsonR(cov, varX, varY), n - 2)

\* the second loop, given meanX and meanY
pearsonAboutMeans(x, meanX, y, meanY) ==
    pearsonOfMoments(sumOfProducts(x, meanX, y, meanY),
                     sumOfProducts(x, meanX, x, meanX),
                     sumOfProducts(y, meanY, y, meanY), Len(x))

pearsonCorrelation(x, y) ==
    IF tooFewForPearson(Len(x)) THEN [r |-> RZero, p |-> POne]
    ELSE pearsonAboutMeans(x, meanOf(x), y, meanOf(y))

\* mutant: a value equal to the median is in the high group
inHighGroupInclusive(v, med) == RLe(med, v)

\* groupVals[i] > med
inHighGroup(v, med) == RLt(med, v)

\* the metric values of the high group (high = TRUE) or of the low group
RECURSIVE groupOf(_, _, _, _)
groupOf(groupVals, metricVals, med, high) ==
    IF groupVals = <<>> THEN <<>>
    ELSE (IF inHighGroup(Head(groupVals), med) = high
          THEN <<Head(metricVals)>> ELSE <<>>)
            \o groupOf(Tail(groupVals), Tail(metricVals), med, high)

\* mutant: counts the pairs where the low-group value is the greater one
uStatisticReversed(lowGroup, highGroup) ==
    SumSeq([k \in 1..(Len(lowGroup) * Len(highGroup)) |->
               LET v1 == lowGroup[((k - 1) \div Len(highGroup)) + 1]
                   v2 == highGroup[((k - 1) % Len(highGroup)) + 1]
               IN  IF RLt(v2, v1) THEN R(1)
                   ELSE IF v1 = v2 THEN Frac(1, 2) ELSE R(0)])

\* the double loop: 1 for v1 < v2 and 0.5 for v1 = v2
uStatistic(lowGroup, highGroup) ==
    SumSeq([k \in 1..(Len(lowGroup) * Len(highGroup)) |->
               LET v1 == lowGroup[((k - 1) \div Len(highGroup)) + 1]
                   v2 == highGroup[((k - 1) % Len(highGroup)) + 1]
               IN  IF RLt(v1, v2) THEN R(1)
                   ELSE IF v1 = v2 THEN Frac(1, 2) ELSE R(0)])

\* p = 2 * normalCDF(-|z|) with z = (u - meanU) / sigmaU: 1 for z = 0
mannWhitneyP(u, n1, n2) ==
    LET d == RSub(u, Frac(n1 * n2, 2))
    IN  IF n1 * n2 * (n1 + n2 + 1) = 0 THEN POne
        ELSE IF d = R(0) THEN POne
        ELSE [kind |-> "normal", df |-> 0,
              stat |-> RDiv(RMul(d, d), Frac(n1 * n2 * (n1 + n2 + 1), 12))]

\* the result for the two groups
mannWhitneyOfGroups(lowGroup, highGroup) ==
    IF Len(lowGroup) = 0 \/ Len(highGroup) = 0
    THEN [u |-> R(0), p |-> POne, ok |-> FALSE]
    ELSE [u  |-> uStatistic(lowGroup, highGroup),
          p  |-> mannWhitneyP(uStatistic(lowGroup, highGroup),
                              Len(lowGroup), Len(highGroup)),
          ok |-> TRUE]

mannWhitneyU(groupVals, metricVals) ==
    IF Len(groupVals) < 4 THEN [u |-> R(0), p |-> POne, ok |-> FALSE]
    ELSE mannWhitneyOfGroups(
             groupOf(groupVals, metricVals, percentile(SortFloat64s(groupVals), R(50)), FALSE),
             groupOf(groupVals, metricVals, percentile(SortFloat64s(groupVals), R(50)), TRUE))

-----------------------------------------------------------------------------
(* State machine: the significance tests on paired samples *)

\* most paired samples
CorrMaxLen == 6

\* the (grouping value, metric value) pairs the samples are drawn from
CorrPairs ==
    { <<R(0), R(2)>>, <<R(1), R(2)>>, <<R(1), R(3)>>, <<R(2), R(1)>> }

InitCorr ==
    /\ pc = "start"
    /\ now = 0
    /\ cfgWeeks = 0
    /\ weekRanges = <<>>
    /\ allPRs = <<>>
    /\ filtered = <<>>
    /\ allWeekStats = <<>>
    /\ monthRanges = <<>>
    /\ monthStats = <<>>
    /\ values = <<>>
    /\ pct = R(0)
    /\ result = R(0)
    /\ topN = 0
    /\ contributors = <<>>
    /\ windowPct = 0
    /\ onaThreshold = R(0)
    /\ periodLabel = "week"
    /\ statsRows = <<>>
    /\ InitCalls
    /\ \E ps \in SeqsUpTo(CorrPairs, CorrMaxLen) :
          /\ xs = [i \in 1..Len(ps) |-> ps[i][1]]
          /\ ys = [i \in 1..Len(ps) |-> ps[i][2]]
    /\ corr = [r |-> RZero, p |-> POne]
    /\ mwu = [u |-> R(0), p |-> POne, ok |-> FALSE]

\* r, pPearson := pearsonCorrelation(onaAligned, metricVals)
CallPearson ==
    /\ pc = "start"
    /\ corr' = pearsonCorrelation(xs, ys)
    /\ pc' = "pearson"
    /\ UNCHANGED <<now, cfgWeeks, weekRanges, allPRs, filtered, allWeekStats,
                   monthRanges, monthStats, values, pct, result,
                   contribVars, statsVars, xs, ys, mwu, callVars>>

\* _, pMW, mwOK := mannWhitneyU(onaAligned, metricVals)
CallMannWhitneyU ==
    /\ pc = "start"
    /\ mwu' = mannWhitneyU(xs, ys)
    /\ pc' = "mwu"
    /\ UNCHANGED <<now, cfgWeeks, weekRanges, allPRs, filtered, allWeekStats,
                   monthRanges, monthStats, values, pct, result,
                   contribVars, statsVars, xs, ys, corr, callVars>>

NextCorr == CallPearson \/ CallMannWhitneyU

SpecCorr == InitCorr /\ [][NextCorr]_vars

-----------------------------------------------------------------------------
(* stats: interpretPValue *)

\* mutant: 0.05 itself is significant
belowAlphaInclusive(p, alpha) == RLe(p, alpha)

\* p < 0.05, p < 0.10
belowAlpha(p, alpha) == RLt(p, alpha)

interpretPValue(p) ==
    IF belowAlpha(p, Frac(5, 100)) THEN "significant"
    ELSE IF belowAlpha(p, Frac(10, 100)) THEN "marginal"
    ELSE "not_significant"

-----------------------------------------------------------------------------
(* State machine: calls of interpretPValue *)

\* p-values k/1000 for k up to InterpMaxMille, and 1
InterpMaxMille == 200

InterpPValues == { Frac(k, 1000) : k \in 0..InterpMaxMille } \cup { R(1) }

\* interp := interpretPValue(p)
CallInterpretPValue ==
    /\ pc = "start"
    /\ \E p \in InterpPValues : interp' = [p |-> p, label |-> interpretPValue(p)]
    /\ pc' = "interp"
    /\ UNCHANGED <<now, cfgWeeks, weekRanges, allPRs, filtered, allWeekStats,
                   monthRanges, monthStats, values, pct, result,
                   contribVars, statsVars, corrVars, beta, fetch, gql, html>>

NextInterp == CallInterpretPValue

SpecInterp == InitCommon /\ [][NextInterp]_vars

-----------------------------------------------------------------------------
(* stats: generateStats and buildRow of the consolidated stats CSV *)

\* the 6 rows of the consolidated stats CSV
csvMetrics ==
    << [name |-> "prs_merged", field |-> "prsMerged", isInt |-> TRUE, valid |-> "prs"],
       [name |-> "unique_authors", field |-> "uniqueAuthors", isInt |-> TRUE, valid |-> "prs"],
       [name |-> "prs_per_engineer", field |-> "prsPerEngineer", isInt |-> FALSE, valid |-> "prs"],
       [name |-> "median_review_speed_hours", field |-> "medianReviewSpeed", isInt |-> FALSE, valid |-> "duration"],
       [name |-> "pct_reverts", field |-> "pctReverts", isInt |-> FALSE, valid |-> "prs"],
       [name |-> "pct_ona_involved", field |-> "pctOnaInvolved", isInt |-> FALSE, valid |-> "prs"] >>

extractOna(ws) == ws.pctOnaInvolved

\* the squares of the two-tailed critical values of Student's t, in
\* thousandths, for 1 to 6 degrees of freedom: where 2 * tDistCDF(-|t|, df)
\* crosses 0.05 and 0.10
tCritSqMille ==
    [ five |-> <<161448, 18513, 10128, 7709, 6608, 5987>>,
      ten  |-> <<39863, 8526, 5538, 4545, 4060, 3776>> ]

\* the same for the standard normal: where 2 * normalCDF(-|z|) crosses them
zCritSqMille == [five |-> 3841, ten |-> 2706]

\* p < 0.05 (level "five") or p < 0.10 (level "ten") for a p-value that is
\* known exactly or by the statistic it is the tail probability of
pBelow(p, level) ==
    CASE p.kind = "exact"  -> belowAlpha(p.stat, IF level = "five" THEN Frac(5, 100)
                                                 ELSE Frac(10, 100))
      [] p.kind = "t"      -> RLt(Frac(tCritSqMille[level][p.df], 1000), p.stat)
      [] p.kind = "normal" -> RLt(Frac(zCritSqMille[level], 1000), p.stat)
      [] p.kind = "nan"    -> FALSE

\* interpretPValue of such a p-value
interpretP(p) ==
    IF pBelow(p, "five") THEN "significant"
    ELSE IF pBelow(p, "ten") THEN "marginal"
    ELSE "not_significant"

\* fmt.Sprintf("%.6f", p); a text is a one-element sequence, "" is <<>>
formatP(p) ==
    IF p.kind = "exact" THEN <<FormatFixed(p.stat, 1000000)>>
    ELSE <<[sixDecimalsOf |-> p]>>

\* mutant: the first len(metricVals) Ona values, whatever week they are of
onaPrefixOf(validWeeks, md) ==
    [i \in 1..Len(validValues(validWeeks, md)) |-> extractOna(validWeeks[i])]

\* onaAligned: onaVals[i] of the weeks that are valid for the metric
RECURSIVE onaAlignedOf(_, _)
onaAlignedOf(validWeeks, md) ==
    IF validWeeks = <<>> THEN <<>>
    ELSE (IF valid(md, Head(validWeeks)) THEN <<extractOna(Head(validWeeks))>> ELSE <<>>)
            \o onaAlignedOf(Tail(validWeeks), md)

\* the four fields set from the two tests
correlationFields(pearson, mw) ==
    [ r2Ona           |-> <<FormatFixed(pearson.r.sq, 10000)>>,
      pPearsonOna     |-> formatP(pearson.p),
      pMannWhitneyOna |-> IF mw.ok THEN formatP(mw.p) ELSE <<>>,
      sigOna          |-> interpretP(pearson.p) ]

\* the Ona correlation fields of a row; they keep their zero value, the empty
\* string, when the tests are skipped
onaFields(md, onaAligned, metricVals) ==
    IF md.name # "pct_ona_involved" /\ Len(metricVals) >= 4
    THEN correlationFields(pearsonCorrelation(onaAligned, metricVals),
                           mannWhitneyU(onaAligned, metricVals))
    ELSE [r2Ona |-> <<>>, pPearsonOna |-> <<>>, pMannWhitneyOna |-> <<>>, sigOna |-> ""]

\* pctChange of the CSV: "N/A" when firstAvg is 0
pctChangeCsv(firstAvg, lastAvg) ==
    IF firstAvg # R(0) THEN pctChangeText(firstAvg, lastAvg)
    ELSE [prefix |-> "", number |-> FormatFixed(R(0), 10), unit |-> "N/A"]

\* the row given its window and its correlation fields, <<>> for nil
csvRowOf(md, w, mode, threshold, label, ona) ==
    IF ~w.ok THEN <<>>
    ELSE << [ metric          |-> md.name,
              windowSize      |-> w.firstWinSize,
              firstWindowSize |-> w.firstWinSize,
              lastWindowSize  |-> w.lastWinSize,
              n               |-> w.n,
              firstAvg        |-> w.firstAvg,
              lastAvg         |-> w.lastAvg,
              absChange       |-> RSub(w.lastAvg, w.firstAvg),
              pctChange       |-> pctChangeCsv(w.firstAvg, w.lastAvg),
              window          |-> [mode |-> mode, threshold |-> threshold,
                                   first |-> w.firstWinSize, last |-> w.lastWinSize,
                                   abbrev |-> IF label = "month" THEN "mo" ELSE "w"],
              r2Ona           |-> ona.r2Ona,
              pPearsonOna     |-> ona.pPearsonOna,
              pMannWhitneyOna |-> ona.pMannWhitneyOna,
              sigOna          |-> ona.sigOna ] >>

\* buildRow of the CSV version
buildCsvRow(md, validWeeks, wpct, threshold, label) ==
    IF RLt(R(0), threshold)
    THEN csvRowOf(md, thresholdWindow(validWeeks, md, threshold), "threshold",
                  threshold, label,
                  onaFields(md, onaAlignedOf(validWeeks, md), validValues(validWeeks, md)))
    ELSE csvRowOf(md, trendWindow(validWeeks, md, wpct), "positional",
                  threshold, label,
                  onaFields(md, onaAlignedOf(validWeeks, md), validValues(validWeeks, md)))

RECURSIVE csvRowsOf(_, _, _, _, _)
csvRowsOf(mds, validWeeks, wpct, threshold, label) ==
    IF mds = <<>> THEN <<>>
    ELSE buildCsvRow(Head(mds), validWeeks, wpct, threshold, label)
            \o csvRowsOf(Tail(mds), validWeeks, wpct, threshold, label)

\* the rows generateStats returns next to the CSV text
generateCsvStats(allStats, wpct, threshold, label) ==
    IF totalOfNonZero(allStats).nonZeroCount = 0 THEN <<>>
    ELSE IF Len(validWeeksOf(allStats)) < 4 THEN <<>>
    ELSE csvRowsOf(csvMetrics, validWeeksOf(allStats), wpct, threshold, label)

-----------------------------------------------------------------------------
(* State machine: the weekly stats and the consolidated stats CSV *)

\* most weeks aggregated in the CSV runs
CsvMaxWeeks == 5

\* weekStats values: three weeks that differ in their Ona share; one of them
\* has no review speed
CsvWeekStats ==
    { [ prsMerged |-> 2, uniqueAuthors |-> 1, prsPerEngineer |-> R(2),
        medianReviewSpeed |-> R(1), pctReverts |-> R(0), pctOnaInvolved |-> R(0) ],
      [ prsMerged |-> 4, uniqueAuthors |-> 2, prsPerEngineer |-> R(2),
        medianReviewSpeed |-> R(-1), pctReverts |-> R(0), pctOnaInvolved |-> R(1) ],
      [ prsMerged |-> 3, uniqueAuthors |-> 3, prsPerEngineer |-> R(1),
        medianReviewSpeed |-> R(3), pctReverts |-> R(1), pctOnaInvolved |-> R(2) ] }

CsvArgs ==
    { [windowPct |-> 5, onaThreshold |-> R(0), periodLabel |-> "week"],
      [windowPct |-> 40, onaThreshold |-> R(0), periodLabel |-> "month"],
      [windowPct |-> 5, onaThreshold |-> R(2), periodLabel |-> "week"] }

\* aggregateCSV appends the weekStats of the next week
AppendCsvWeekStats ==
    /\ pc = "start"
    /\ Len(allWeekStats) < CsvMaxWeeks
    /\ \E ws \in CsvWeekStats : allWeekStats' = Append(allWeekStats, ws)
    /\ UNCHANGED <<pc, now, cfgWeeks, weekRanges, allPRs, filtered,
                   monthRanges, monthStats, values, pct, result, analysisVars>>

\* _, statsRows := generateStats(allWeekStats, windowPct, onaThreshold, periodLabel)
GenerateCsvStats ==
    /\ pc = "start"
    /\ \E a \in CsvArgs :
          /\ windowPct' = a.windowPct
          /\ onaThreshold' = a.onaThreshold
          /\ periodLabel' = a.periodLabel
          /\ statsRows' = generateCsvStats(allWeekStats, a.windowPct, a.onaThreshold,
                                           a.periodLabel)
    /\ pc' = "csvstats"
    /\ UNCHANGED <<now, cfgWeeks, weekRanges, allPRs, filtered, allWeekStats,
                   monthRanges, monthStats, values, pct, result,
                   contribVars, corrVars, callVars>>

NextCsvStats == AppendCsvWeekStats \/ GenerateCsvStats

SpecCsvStats == InitCommon /\ [][NextCsvStats]_vars

-----------------------------------------------------------------------------
(* stats: regIncBeta *)

\* float64 operations round their exact result to the nearest value of 53
\* significant bits, a tie to the even one; the model rounds the same way to
\* MantissaBits significant bits
MantissaBits == 5

RECURSIVE Pow2(_)
Pow2(n) == IF n = 0 THEN 1 ELSE 2 * Pow2(n - 1)

\* the integer nearest to a rational q >= 0, a tie to the even one
RoundHalfEven(q) ==
    LET fl  == q.num \div q.den
        rem == RSub(q, R(fl))
    IN  IF RLt(Frac(1, 2), rem) \/ (rem = Frac(1, 2) /\ fl % 2 = 1) THEN fl + 1 ELSE fl

\* q * 2^e for q > 0, rounded to MantissaBits significant bits
RECURSIVE roundScaled(_, _)
roundScaled(q, e) ==
    IF RLe(R(Pow2(MantissaBits)), q) THEN roundScaled(RMul(q, Frac(1, 2)), e + 1)
    ELSE IF RLt(q, R(Pow2(MantissaBits - 1))) THEN roundScaled(RMul(q, R(2)), e - 1)
    ELSE IF e >= 0 THEN R(RoundHalfEven(q) * Pow2(e))
    ELSE Frac(RoundHalfEven(q), Pow2(-e))

\* the float nearest to a rational
RoundFloat(q) ==
    IF q.num = 0 THEN R(0)
    ELSE IF q.num > 0 THEN roundScaled(q, 0)
    ELSE RSub(R(0), roundScaled(RSub(R(0), q), 0))

\* NaN; every comparison with it is false and every operation on it gives it
FNaN == [num |-> 0, den |-> 0]

IsNaN(v) == v.den = 0

FLt(v, w) == ~IsNaN(v) /\ ~IsNaN(w) /\ RLt(v, w)

FAdd(v, w) == IF IsNaN(v) \/ IsNaN(w) THEN FNaN ELSE RoundFloat(RAdd(v, w))

FSub(v, w) == IF IsNaN(v) \/ IsNaN(w) THEN FNaN ELSE RoundFloat(RSub(v, w))

FDiv(v, w) == IF IsNaN(v) \/ IsNaN(w) THEN FNaN ELSE RoundFloat(RDiv(v, w))

\* const maxIter = 200
maxIter == 200

\* x < 0 || x > 1, x == 0: return 0; x == 1: return 1
trivialResult(x) ==
    IF FLt(x, R(0)) \/ FLt(R(1), x) THEN <<"0">>
    ELSE IF x = R(0) THEN <<"0">>
    ELSE IF x = R(1) THEN <<"1">>
    ELSE <<>>

\* x > (a+1)/(a+b+2)
useSymmetry(a, b, x) == FLt(FDiv(FAdd(a, R(1)), FAdd(FAdd(a, b), R(2))), x)

\* the classes of a float value that the loop distinguishes: "zero",
\* "small" (0 < |v| < tiny), "big" (|v| >= tiny) and "nan"
FloatClasses(x) == IF IsNaN(x) THEN {"nan"} ELSE {"zero", "small", "big"}

\* if math.Abs(v) < tiny { v = tiny }
floored(class) == IF class \in {"zero", "small"} THEN "big" ELSE class

\* math.Abs(delta-1.0) < epsilon can hold only of a number
mayConverge(x) == IF IsNaN(x) THEN {FALSE} ELSE {TRUE, FALSE}

\* the frame of a call regIncBeta(a, b, x) made below depth pending calls
betaFrame(a, b, x, depth) ==
    [ pc |-> "enter", a |-> a, b |-> b, x |-> x, depth |-> depth,
      i |-> 0, c |-> "big", d |-> "zero", divisors |-> {},
      exhausted |-> FALSE, result |-> <<>> ]

-----------------------------------------------------------------------------
(* State machine: one call of regIncBeta *)

\* frames of the recursion that are followed
BetaMaxDepth == 3

BetaAs == { Frac(1, 8), Frac(1, 2), R(1), R(3) }

BetaBs == { Frac(1, 2), Frac(25, 8) }

BetaXs == { Frac(-1, 4), R(0), Frac(7, 32), Frac(1, 2), Frac(3, 4), R(1), Frac(5, 4), FNaN }

InitBeta ==
    /\ pc = "start"
    /\ now = 0
    /\ cfgWeeks = 0
    /\ weekRanges = <<>>
    /\ allPRs = <<>>
    /\ filtered = <<>>
    /\ allWeekStats = <<>>
    /\ monthRanges = <<>>
    /\ monthStats = <<>>
    /\ values = <<>>
    /\ pct = R(0)
    /\ result = R(0)
    /\ topN = 0
    /\ contributors = <<>>
    /\ windowPct = 0
    /\ onaThreshold = R(0)
    /\ periodLabel = "week"
    /\ statsRows = <<>>
    /\ xs = <<>>
    /\ ys = <<>>
    /\ corr = [r |-> RZero, p |-> POne]
    /\ mwu = [u |-> R(0), p |-> POne, ok |-> FALSE]
    /\ interp = [p |-> R(0), label |-> ""]
    /\ beta \in { betaFrame(a, b, x, 0) : a \in BetaAs, b \in BetaBs, x \in BetaXs }
    /\ fetch = [pc |-> "idle"]
    /\ gql = [pc |-> "idle"]
    /\ html = [windowDesc |-> <<>>]

betaUnchanged ==
    UNCHANGED <<pc, now, cfgWeeks, weekRanges, allPRs, filtered, allWeekStats,
                monthRanges, monthStats, values, pct, result,
                contribVars, statsVars, corrVars, interp, fetch, gql, html>>

\* the three early returns
BetaReturnTrivial ==
    /\ beta.pc = "enter"
    /\ trivialResult(beta.x) # <<>>
    /\ beta' = [beta EXCEPT !.pc = "returned", !.result = trivialResult(beta.x)]
    /\ betaUnchanged

\* return 1.0 - regIncBeta(b, a, 1.0-x)
BetaSymmetry ==
    /\ beta.pc = "enter"
    /\ trivialResult(beta.x) = <<>>
    /\ useSymmetry(beta.a, beta.b, beta.x)
    /\ beta.depth < BetaMaxDepth
    /\ beta' = betaFrame(beta.b, beta.a, FSub(R(1), beta.x), beta.depth + 1)
    /\ betaUnchanged

\* f := tiny; c := f; d := 0.0
BetaStartLoop ==
    /\ beta.pc = "enter"
    /\ trivialResult(beta.x) = <<>>
    /\ ~useSymmetry(beta.a, beta.b, beta.x)
    /\ beta' = [beta EXCEPT !.pc = "loop", !.i = 0, !.c = "big", !.d = "zero"]
    /\ betaUnchanged

\* one iteration of the loop: d1 is 1.0 + an*d and c1 is 1.0 + an/c
BetaIterate ==
    /\ beta.pc = "loop"
    /\ beta.i <= maxIter
    /\ \E d1 \in FloatClasses(beta.x), c1 \in FloatClasses(beta.x),
          done \in mayConverge(beta.x) :
          beta' = [beta EXCEPT
                     !.divisors = {floored(d1), beta.c},
                     !.d = IF floored(d1) = "nan" THEN "nan" ELSE "big",
                     !.c = floored(c1),
                     !.i = IF done THEN beta.i ELSE beta.i + 1,
                     !.pc = IF done THEN "returned" ELSE "loop",
                     !.result = IF done THEN <<"prefix*f">> ELSE <<>>]
    /\ betaUnchanged

\* the loop condition i <= maxIter fails
BetaExhausted ==
    /\ beta.pc = "loop"
    /\ beta.i > maxIter
    /\ beta' = [beta EXCEPT !.pc = "returned", !.exhausted = TRUE,
                            !.result = <<"prefix*f">>]
    /\ betaUnchanged

NextBeta ==
    \/ BetaReturnTrivial
    \/ BetaSymmetry
    \/ BetaStartLoop
    \/ BetaIterate
    \/ BetaExhausted

SpecBeta == InitBeta /\ [][NextBeta]_vars

-----------------------------------------------------------------------------
(* fetch.go: fetchAllPRs *)

\* const maxConcurrency = 10
maxConcurrency == 10

\* weeks fetched beyond maxConcurrency
FetchExtraWeeks == 1

FetchWeeks == maxConcurrency + FetchExtraWeeks

\* what fetchWeekPRs returns for a week, as PR numbers: the first three weeks
\* have PRs, the others none
fetchWeekPRs(w) ==
    IF w = 1 THEN <<11, 12>>
    ELSE IF w = 2 THEN <<21>>
    ELSE IF w = 3 THEN <<31>>
    ELSE <<>>

\* sem <- struct{}{} does not block
semHasRoom(sem) == sem < maxConcurrency

\* mutant: no mutual exclusion
muFreeAlways(mu) == TRUE

\* mu.Lock() does not block
muFree(mu) == mu = 0

\* the state fetchAllPRs starts in: the positions of the goroutines ("none"
\* before the go statement), the slice each one read under the lock, and the
\* shared variables
fetchFrame ==
    [ pc     |-> "loop",
      next   |-> 1,
      sem    |-> 0,
      mu     |-> 0,
      wg     |-> 0,
      worker |-> [w \in 1..FetchWeeks |-> "none"],
      read   |-> [w \in 1..FetchWeeks |-> <<>>],
      allPRs |-> <<>> ]

fetchUnchanged ==
    UNCHANGED <<now, cfgWeeks, weekRanges, filtered, allWeekStats,
                monthRanges, monthStats, values, pct, result,
                contribVars, statsVars, corrVars, interp, beta, gql, html>>

\* allPRs := fetchAllPRs(cfg, weeks)
CallFetchAllPRs ==
    /\ pc = "start"
    /\ fetch.pc = "idle"
    /\ fetch' = fetchFrame
    /\ pc' = "fetching"
    /\ UNCHANGED allPRs
    /\ fetchUnchanged

\* wg.Add(1); sem <- struct{}{}; go func(...)
FetchSpawn ==
    /\ fetch.pc = "loop"
    /\ fetch.next <= FetchWeeks
    /\ semHasRoom(fetch.sem)
    /\ fetch' = [fetch EXCEPT !.wg = @ + 1, !.sem = @ + 1, !.next = @ + 1,
                              !.worker[fetch.next] = "fetch"]
    /\ UNCHANGED <<pc, allPRs>>
    /\ fetchUnchanged

\* prs := fetchWeekPRs(cfg, wr) has returned; mu.Lock() and the read of
\* allPRs that append starts with
FetchLock(w) ==
    /\ fetch.pc = "loop"
    /\ fetch.worker[w] = "fetch"
    /\ muFree(fetch.mu)
    /\ fetch' = [fetch EXCEPT !.mu = w, !.worker[w] = "locked",
                              !.read[w] = fetch.allPRs]
    /\ UNCHANGED <<pc, allPRs>>
    /\ fetchUnchanged

\* allPRs = append(allPRs, prs...); mu.Unlock(); then the deferred <-sem and
\* wg.Done()
FetchAppend(w) ==
    /\ fetch.pc = "loop"
    /\ fetch.worker[w] = "locked"
    /\ fetch' = [fetch EXCEPT !.allPRs = fetch.read[w] \o fetchWeekPRs(w),
                              !.read[w] = <<>>,
                              !.mu = 0, !.worker[w] = "done",
                              !.sem = @ - 1, !.wg = @ - 1]
    /\ UNCHANGED <<pc, allPRs>>
    /\ fetchUnchanged

\* wg.Wait() returns; return allPRs
FetchReturn ==
    /\ fetch.pc = "loop"
    /\ fetch.next > FetchWeeks
    /\ fetch.wg = 0
    /\ fetch' = [fetch EXCEPT !.pc = "returned"]
    /\ allPRs' = fetch.allPRs
    /\ pc' = "fetched"
    /\ fetchUnchanged

NextFetch ==
    \/ CallFetchAllPRs
    \/ FetchSpawn
    \/ \E w \in 1..FetchWeeks : FetchLock(w)
    \/ \E w \in 1..FetchWeeks : FetchAppend(w)
    \/ FetchReturn

SpecFetch == InitCommon /\ [][NextFetch]_vars

-----------------------------------------------------------------------------
(* graphql.go: graphqlQuery *)

\* const maxRetries = 6
maxRetries == 6

\* what one HTTP attempt can meet: an error of httpClient.Do, an error of
\* io.ReadAll, or a response with a status and a body; the body is JSON or
\* not, its first error has the type RATE_LIMITED or not, and its data is
\* absent ("empty"), the JSON null ("null") or present ("data")
GqlOutcomes ==
    { [doErr |-> TRUE,  readErr |-> FALSE, status |-> 0,   parses |-> FALSE, rateLimited |-> FALSE, data |-> "empty"],
      [doErr |-> FALSE, readErr |-> TRUE,  status |-> 200, parses |-> FALSE, rateLimited |-> FALSE, data |-> "empty"],
      [doErr |-> FALSE, readErr |-> FALSE, status |-> 502, parses |-> TRUE,  rateLimited |-> FALSE, data |-> "data"],
      [doErr |-> FALSE, readErr |-> FALSE, status |-> 429, parses |-> TRUE,  rateLimited |-> FALSE, data |-> "data"],
      [doErr |-> FALSE, readErr |-> FALSE, status |-> 200, parses |-> FALSE, rateLimited |-> FALSE, data |-> "empty"],
      [doErr |-> FALSE, readErr |-> FALSE, status |-> 200, parses |-> TRUE,  rateLimited |-> TRUE,  data |-> "data"],
      [doErr |-> FALSE, readErr |-> FALSE, status |-> 200, parses |-> TRUE,  rateLimited |-> FALSE, data |-> "null"],
      [doErr |-> FALSE, readErr |-> FALSE, status |-> 200, parses |-> TRUE,  rateLimited |-> FALSE, data |-> "empty"],
      [doErr |-> FALSE, readErr |-> FALSE, status |-> 200, parses |-> TRUE,  rateLimited |-> FALSE, data |-> "data"] }

\* mutant: only absent data is retried
dataMissingWhenEmpty(data) == data = "empty"

\* len(gqlResp.Data) == 0 || string(gqlResp.Data) == "null"
dataMissing(data) == data \in {"empty", "null"}

\* lastErr of an attempt, <<>> when the attempt passes every check of the
\* loop body
attemptError(o) ==
    IF o.doErr THEN <<"request failed">>
    ELSE IF o.readErr THEN <<"read failed">>
    ELSE IF o.status >= 500 THEN <<"HTTP 5xx">>
    ELSE IF o.status = 429 THEN <<"HTTP 429">>
    ELSE IF ~o.parses THEN <<"invalid JSON response">>
    ELSE IF o.rateLimited THEN <<"rate limited">>
    ELSE IF dataMissing(o.data) THEN <<"empty response">>
    ELSE <<>>

\* the state graphqlQuery starts in; outcomes are the outcomes of the
\* attempts made so far, resp and err the returned pair with <<>> for nil
gqlFrame ==
    [ pc |-> "loop", attempt |-> 1, outcomes |-> <<>>, lastErr |-> <<>>,
      resp |-> <<>>, err |-> <<>> ]

gqlUnchanged ==
    UNCHANGED <<now, cfgWeeks, weekRanges, allPRs, filtered, allWeekStats,
                monthRanges, monthStats, values, pct, result,
                contribVars, statsVars, corrVars, interp, beta, fetch, html>>

\* resp, err := graphqlQuery(token, query)
CallGraphqlQuery ==
    /\ pc = "start"
    /\ gql.pc = "idle"
    /\ gql' = gqlFrame
    /\ pc' = "querying"
    /\ gqlUnchanged

\* one pass of the loop body that ends in time.Sleep and continue
GqlRetry ==
    /\ gql.pc = "loop"
    /\ gql.attempt <= maxRetries
    /\ \E o \in GqlOutcomes :
          /\ attemptError(o) # <<>>
          /\ gql' = [gql EXCEPT !.outcomes = Append(@, o),
                                !.lastErr = attemptError(o),
                                !.attempt = @ + 1]
    /\ UNCHANGED pc
    /\ gqlUnchanged

\* one pass of the loop body that ends in return &gqlResp, nil
GqlSuccess ==
    /\ gql.pc = "loop"
    /\ gql.attempt <= maxRetries
    /\ \E o \in GqlOutcomes :
          /\ attemptError(o) = <<>>
          /\ gql' = [gql EXCEPT !.outcomes = Append(@, o),
                                !.resp = <<o>>, !.err = <<>>,
                                !.pc = "returned"]
    /\ pc' = "queried"
    /\ gqlUnchanged

\* return nil, fmt.Errorf("graphql query failed after %d attempts: %v", ...)
GqlGiveUp ==
    /\ gql.pc = "loop"
    /\ gql.attempt > maxRetries
    /\ gql' = [gql EXCEPT !.resp = <<>>,
                          !.err = <<"graphql query failed">> \o gql.lastErr,
                          !.pc = "returned"]
    /\ pc' = "queried"
    /\ gqlUnchanged

NextGql == CallGraphqlQuery \/ GqlRetry \/ GqlSuccess \/ GqlGiveUp

SpecGql == InitCommon /\ [][NextGql]_vars

-----------------------------------------------------------------------------
(* State machine: the top contributors of PRs merged around a split *)

\* fetched PRs of two authors: one author has PRs six hours before, at and
\* six hours after the merge of a PR with an Ona co-author, all in one week,
\* and a PR in the week after; the other has a PR in the week before
SplitPRs ==
    LET s  == Unix(AggMonday - 14)
        t1 == Unix(AggMonday - 21) + 12 * 3600
        t3 == Unix(AggMonday - 7) + 12 * 3600
    IN  { MkPR(s + 6 * 3600, <<"a", "l">>, BaseProfile),
          MkPR(s + 12 * 3600, <<"a", "l">>, OnaProfile),
          MkPR(s + 18 * 3600, <<"a", "l">>, BaseProfile),
          MkPR(t3, <<"a", "l">>, BaseProfile),
          MkPR(t1, <<"b", "o">>, BaseProfile),
          MkPR(t1, <<"a", "l">>, BaseProfile) }

NextSplit ==
    \/ ComputeWeekRanges(AggNows, ContribMaxWeeks)
    \/ FetchPR(SplitPRs, ContribMaxPRs)
    \/ FilterPRs
    \/ ComputeTopContributors

SpecSplit == InitCommon /\ [][NextSplit]_vars

-----------------------------------------------------------------------------
(* html: the window description of generateHTML *)

\* data.WindowDesc, <<>> when it stays empty; nweeks is len(weeks), and the
\* dates of the positional text are kept as the indices of weeks they are
\* read from
windowDescOf(nweeks, summaryRows, label) ==
    IF Len(summaryRows) > 0 /\ nweeks > 0
    THEN LET r == summaryRows[1]
         IN  IF r.firstWindowSize # r.lastWindowSize
             THEN << [kind |-> "split", window |-> r.window] >>
             ELSE LET ws == IF r.windowSize < 1 THEN 1 ELSE r.windowSize
                  IN  << [kind        |-> "dates",
                          ws          |-> ws,
                          periodLabel |-> label,
                          firstStart  |-> 0,
                          firstEnd    |-> ws - 1,
                          lastStart   |-> nweeks - ws,
                          lastEnd     |-> nweeks - 1] >>
    ELSE <<>>

\* most weeks aggregated in the HTML runs
HtmlMaxWeeks == 5

\* the busy weeks of StatsWeekStats: Ona shares of 0, 50 and 75 percent
HtmlWeekStats == { ws \in StatsWeekStats : ws.prsMerged >= 20 }

\* aggregateCSV appends the weekStats of the next week
AppendHtmlWeekStats ==
    /\ pc = "start"
    /\ Len(allWeekStats) < HtmlMaxWeeks
    /\ \E ws \in HtmlWeekStats : allWeekStats' = Append(allWeekStats, ws)
    /\ UNCHANGED <<pc, now, cfgWeeks, weekRanges, allPRs, filtered,
                   monthRanges, monthStats, values, pct, result, analysisVars>>

\* htmlContent, err := generateHTML(title, weekRanges, allWeekStats, statsRows,
\* periodLabel, ...); weekRanges and allWeekStats have the same length
GenerateHTML ==
    /\ pc = "stats"
    /\ html' = [windowDesc |-> windowDescOf(Len(allWeekStats), statsRows, periodLabel)]
    /\ pc' = "html"
    /\ UNCHANGED <<now, cfgWeeks, weekRanges, allPRs, filtered, allWeekStats,
                   monthRanges, monthStats, values, pct, result,
                   contribVars, statsVars, corrVars, interp, beta, fetch, gql>>

NextHtml == AppendHtmlWeekStats \/ GenerateStats \/ GenerateHTML

SpecHtml == InitCommon /\ [][NextHtml]_vars

-----------------------------------------------------------------------------
(* Claims *)

\* the Monday on or before a day, found by search rather than by arithmetic
MondayOnOrBefore(day) == CHOOSE d \in (day - 6)..day : Weekday(d) = 1

InSomeRange(t, ranges) ==
    Cardinality({ i \in 1..Len(ranges) :
                    startEpoch(ranges[i]) <= t /\ t <= endEpoch(ranges[i]) })

\* seconds next to every range boundary, inside the analysis window
BoundarySeconds(ranges) ==
    { t \in UNION { { startEpoch(ranges[i]) - 1, startEpoch(ranges[i]),
                      startEpoch(ranges[i]) + 1, endEpoch(ranges[i]) - 1,
                      endEpoch(ranges[i]), endEpoch(ranges[i]) + 1,
                      Unix(ranges[i].end), Unix(ranges[i].end) - 1 } : i \in 1..Len(ranges) } :
        startEpoch(ranges[1]) <= t /\ t <= endEpoch(ranges[Len(ranges)]) }

\* C2: computeWeekRanges(now, w) returns exactly w ranges, each starting on a
\* Monday and ending 6 days later, each next range starting the day after the
\* previous one ends, the last one ending the day before the Monday of now's
\* week; with the inclusive second bounds of aggregateCSV consecutive ranges
\* meet without gap or overlap (next start second = previous end second + 1),
\* so every second of the window lies in exactly one range.
C2_WeekRangesPartition ==
    pc = "weeks" =>
        /\ Len(weekRanges) = cfgWeeks
        /\ \A i \in 1..Len(weekRanges) :
              /\ Weekday(weekRanges[i].start) = 1
              /\ weekRanges[i].end = weekRanges[i].start + 6
              /\ startEpoch(weekRanges[i]) <= endEpoch(weekRanges[i])
        /\ \A i \in 1..(Len(weekRanges) - 1) :
              /\ weekRanges[i + 1].start = weekRanges[i].end + 1
              /\ startEpoch(weekRanges[i + 1]) = endEpoch(weekRanges[i]) + 1
        /\ weekRanges[Len(weekRanges)].end = MondayOnOrBefore(DayOf(now)) - 1
        /\ \A t \in BoundarySeconds(weekRanges) : InSomeRange(t, weekRanges) = 1

\* several ranges computed from a clock reading late on a day that is not a Monday
C2_Witness ==
    /\ pc = "weeks"
    /\ cfgWeeks >= 3
    /\ Len(weekRanges) = cfgWeeks
    /\ now % SecondsPerDay = SecondsPerDay - 1
    /\ Weekday(DayOf(now)) = 0
    /\ weekRanges[Len(weekRanges)].end = DayOf(now) - 7

Min(vs) == CHOOSE x \in { vs[i] : i \in 1..Len(vs) } :
              \A j \in 1..Len(vs) : RLe(x, vs[j])
Max(vs) == CHOOSE x \in { vs[i] : i \in 1..Len(vs) } :
              \A j \in 1..Len(vs) : RLe(vs[j], x)

\* C7: for every list of at least 2 values and every pct in [0,100],
\* percentile(v, pct) lies between min(v) and max(v), percentile(v, 0) = min(v),
\* percentile(v, 100) = max(v), and the indices read for the interpolation
\* stay within 0..n-1.
C7_PercentileWithinRange ==
    (pc = "percentile" /\ Len(values) >= 2 /\ RLe(R(0), pct) /\ RLe(pct, R(100))) =>
        /\ RLe(Min(values), result) /\ RLe(result, Max(values))
        /\ pct = R(0) => result = Min(values)
        /\ pct = R(100) => result = Max(values)
        /\ percentileReads(Len(values), pct) \subseteq 0..(Len(values) - 1)

\* an interpolation strictly between two distinct neighbours of an unsorted list
C7_Witness ==
    /\ pc = "percentile"
    /\ Len(values) = 3
    /\ RLt(values[2], values[1]) /\ RLt(values[1], values[3])
    /\ pct = R(25)
    /\ RLt(Min(values), result) /\ RLt(result, Max(values))
    /\ Cardinality(percentileReads(3, pct)) = 2

\* C8: percentile returns the sentinel -1 for an empty list and the sole
\* element for a one-element list whatever pct is; median and p90 do the same.
C8_PercentileEmptyAndSingle ==
    pc \in {"percentile", "median", "p90"} =>
        /\ Len(values) = 0 => result = R(-1)
        /\ Len(values) = 1 => result = values[1]

\* p90 of an empty list has been taken, with the sentinel as the outcome
C8_Witness ==
    /\ pc = "p90"
    /\ values = <<>>
    /\ result = R(-1)

-----------------------------------------------------------------------------
(* Claims about aggregateCSV *)

\* the inclusive interval [start 00:00:00, end 23:59:59] of a week range
InWeek(t, wr) == Unix(wr.start) <= t /\ t < Unix(wr.end + 1)

\* indices of the records whose merge timestamp lies in a week range
WeekIdx(prs, wr) == { i \in 1..Len(prs) : InWeek(prs[i].mergedEpoch, wr) }

RECURSIVE SumPrsMerged(_)
SumPrsMerged(stats) ==
    IF stats = <<>> THEN 0 ELSE Head(stats).prsMerged + SumPrsMerged(Tail(stats))

\* C1: aggregateCSV counts each record in at most one week, the week whose
\* inclusive interval contains its merge timestamp: prsMerged of a week is the
\* number of records merged inside it, the sum of prsMerged over all weeks is
\* the number of records merged inside some range, and a record matching no
\* range is counted nowhere.
C1_EachRecordInAtMostOneWeek ==
    pc = "aggregated" =>
        /\ Len(allWeekStats) = Len(weekRanges)
        /\ \A w \in 1..Len(weekRanges) :
              allWeekStats[w].prsMerged = Cardinality(WeekIdx(filtered, weekRanges[w]))
        /\ \A i \in 1..Len(filtered) :
              Cardinality({ w \in 1..Len(weekRanges) :
                              InWeek(filtered[i].mergedEpoch, weekRanges[w]) }) <= 1
        /\ SumPrsMerged(allWeekStats)
              = Cardinality({ i \in 1..Len(filtered) :
                                \E w \in 1..Len(weekRanges) :
                                    InWeek(filtered[i].mergedEpoch, weekRanges[w]) })

\* one record merged in the last second of the last week is counted there,
\* another merged one second later is counted nowhere
C1_Witness ==
    /\ pc = "aggregated"
    /\ cfgWeeks = 2
    /\ Len(filtered) = 2
    /\ filtered[1].mergedEpoch = Unix(weekRanges[2].end + 1) - 1
    /\ filtered[2].mergedEpoch = Unix(weekRanges[2].end + 1)
    /\ allWeekStats[1].prsMerged = 0
    /\ allWeekStats[2].prsMerged = 1

\* the values of one duration kind of the records of a week, in record order,
\* without the sentinel
RECURSIVE DurationsIn(_, _, _)
DurationsIn(prs, wr, kind) ==
    IF prs = <<>> THEN <<>>
    ELSE LET v == Head(prs)[kind]
         IN  (IF InWeek(Head(prs).mergedEpoch, wr) /\ v # R(-1) THEN <<v>> ELSE <<>>)
                 \o DurationsIn(Tail(prs), wr, kind)

\* C3: a duration enters a week's list only if it is not the sentinel -1 (the
\* record still counts as a merged PR), for coding time, review time and
\* review turnaround alike, and a week's median of a duration kind is -1
\* exactly when no record of the week has a non-sentinel value of that kind.
C3_SentinelsExcluded ==
    pc = "aggregated" =>
        LET buckets == bucketsOf(filtered, weekRanges)
        IN  \A w \in 1..Len(weekRanges) :
              /\ buckets[w].codingTimes
                    = DurationsIn(filtered, weekRanges[w], "codingTimeHours")
              /\ buckets[w].reviewTimes
                    = DurationsIn(filtered, weekRanges[w], "reviewTimeHours")
              /\ buckets[w].turnaroundTimes
                    = DurationsIn(filtered, weekRanges[w], "reviewTurnaround")
              /\ buckets[w].count = Cardinality(WeekIdx(filtered, weekRanges[w]))
              /\ allWeekStats[w].prsMerged = buckets[w].count
              /\ (allWeekStats[w].medianCodingTime = R(-1))
                    <=> (\A i \in WeekIdx(filtered, weekRanges[w]) :
                            filtered[i].codingTimeHours = R(-1))
              /\ (allWeekStats[w].medianReviewTime = R(-1))
                    <=> (\A i \in WeekIdx(filtered, weekRanges[w]) :
                            filtered[i].reviewTimeHours = R(-1))

\* a week with two merged PRs, one without and one with a review time, whose
\* coding-time median is the sentinel and whose review-time median is not
C3_Witness ==
    /\ pc = "aggregated"
    /\ \E w \in 1..Len(weekRanges) :
          /\ allWeekStats[w].prsMerged = 2
          /\ WeekIdx(filtered, weekRanges[w]) = {1, 2}
          /\ filtered[1].reviewTimeHours = R(-1)
          /\ filtered[1].reviewTurnaround = R(-1)
          /\ filtered[2].reviewTimeHours # R(-1)
          /\ filtered[1].codingTimeHours = R(-1)
          /\ filtered[2].codingTimeHours = R(-1)
          /\ allWeekStats[w].medianCodingTime = R(-1)
          /\ allWeekStats[w].medianReviewTime = filtered[2].reviewTimeHours

\* C4: in every WeekStat prsPerEngineer is prsMerged/uniqueAuthors when
\* uniqueAuthors > 0 and 0 otherwise; pctOnaInvolved and pctReverts are
\* flagCount/prsMerged*100 when prsMerged > 0 and 0 otherwise; a week without
\* records has prsMerged = 0 and all rates 0.
C4_ZeroDenominatorRates ==
    pc = "aggregated" =>
        \A w \in 1..Len(weekRanges) :
            LET s    == allWeekStats[w]
                idx  == WeekIdx(filtered, weekRanges[w])
                ona  == Cardinality({ i \in idx : filtered[i].onaInvolved })
                revs == Cardinality({ i \in idx : filtered[i].isRevert })
            IN  /\ s.uniqueAuthors > 0 =>
                      s.prsPerEngineer = Frac(s.prsMerged, s.uniqueAuthors)
                /\ s.uniqueAuthors = 0 => s.prsPerEngineer = R(0)
                /\ s.prsMerged > 0 =>
                      /\ s.pctOnaInvolved = Frac(ona * 100, s.prsMerged)
                      /\ s.pctReverts = Frac(revs * 100, s.prsMerged)
                /\ s.prsMerged = 0 =>
                      /\ s.pctOnaInvolved = R(0)
                      /\ s.pctReverts = R(0)
                /\ idx = {} =>
                      /\ s.prsMerged = 0
                      /\ s.uniqueAuthors = 0
                      /\ s.prsPerEngineer = R(0)

\* an empty week beside a week whose two PRs come from one author, one of the
\* two being Ona-involved
C4_Witness ==
    /\ pc = "aggregated"
    /\ cfgWeeks = 2
    /\ allWeekStats[1].prsMerged = 0
    /\ allWeekStats[1].prsPerEngineer = R(0)
    /\ allWeekStats[2].prsMerged = 2
    /\ allWeekStats[2].uniqueAuthors = 1
    /\ allWeekStats[2].prsPerEngineer = R(2)
    /\ allWeekStats[2].pctOnaInvolved = R(50)

\* the fetched PRs that filterPRs keeps, in order
RECURSIVE Kept(_)
Kept(prs) ==
    IF prs = <<>> THEN <<>>
    ELSE (IF skipped(Head(prs), ExcludeSet) THEN <<>> ELSE <<Head(prs)>>) \o Kept(Tail(prs))

SameLetter(c, d) ==
    c = d \/ \E k \in 1..Len(UpperLetters) : {c, d} = {UpperLetters[k], LowerLetters[k]}

EqualFold(a, b) ==
    Len(a) = Len(b) /\ \A i \in 1..Len(a) : SameLetter(a[i], b[i])

\* number of classes of identifiers that are equal up to letter case
FoldClasses(ids) == Cardinality({ { m \in ids : EqualFold(l, m) } : l \in ids })

\* C5: uniqueAuthors of a week is the number of distinct author identifiers
\* among the records bucketed into the week, compared after case-folding.
C5_UniqueAuthorsCaseFolded ==
    pc = "aggregated" =>
        LET kept == Kept(allPRs)
        IN  /\ Len(kept) = Len(filtered)
            /\ \A w \in 1..Len(weekRanges) :
                  allWeekStats[w].uniqueAuthors
                      = FoldClasses({ kept[i].login : i \in WeekIdx(filtered, weekRanges[w]) })

\* two PRs of one week whose logins differ only in letter case: one author
C5_Witness ==
    /\ pc = "aggregated"
    /\ Len(allPRs) = 2
    /\ allPRs[1].login # allPRs[2].login
    /\ EqualFold(allPRs[1].login, allPRs[2].login)
    /\ \E w \in 1..Len(weekRanges) :
          /\ WeekIdx(filtered, weekRanges[w]) = {1, 2}
          /\ allWeekStats[w].uniqueAuthors = 1
          /\ allWeekStats[w].prsMerged = 2

Orders(n) ==
    { f \in [1..n -> 1..n] : \A i, j \in 1..n : f[i] = f[j] => i = j }

Permuted(s, f) == [i \in 1..Len(s) |-> s[f[i]]]

\* C6: aggregateCSV is order-independent: the same records delivered in any
\* other order, by the fetch or to aggregateCSV itself, give the same
\* WeekStat sequence.
C6_OrderIndependent ==
    pc = "aggregated" =>
        /\ \A f \in Orders(Len(filtered)) :
              aggregateCSV(Permuted(filtered, f), weekRanges) = allWeekStats
        /\ \A f \in Orders(Len(allPRs)) :
              aggregateCSV(filterPRs(Permuted(allPRs, f), ExcludeSet), weekRanges)
                  = allWeekStats

\* three records of one week delivered with their coding times out of order
C6_Witness ==
    /\ pc = "aggregated"
    /\ Len(filtered) = 3
    /\ \E w \in 1..Len(weekRanges) :
          /\ WeekIdx(filtered, weekRanges[w]) = {1, 2, 3}
          /\ RLt(filtered[2].codingTimeHours, filtered[3].codingTimeHours)
          /\ RLt(filtered[3].codingTimeHours, filtered[1].codingTimeHours)
          /\ RLe(R(0), filtered[2].codingTimeHours)
          /\ allWeekStats[w].medianCodingTime = filtered[3].codingTimeHours

-----------------------------------------------------------------------------
(* Claims about aggregateMonthly *)

KeyBefore(a, b) == a[1] < b[1] \/ (a[1] = b[1] /\ a[2] < b[2])

\* the month keys of a set, in chronological order
RECURSIVE KeySeq(_)
KeySeq(S) ==
    IF S = {} THEN <<>>
    ELSE LET first == CHOOSE k \in S : \A o \in S : k = o \/ KeyBefore(k, o)
         IN  <<first>> \o KeySeq(S \ {first})

FirstDayOfMonth(key) == DaysFromCivil(key[1], key[2], 1)

\* the day before the first day of the following month
LastDayOfMonth(key) ==
    (IF key[2] = 12 THEN DaysFromCivil(key[1] + 1, 1, 1)
                    ELSE DaysFromCivil(key[1], key[2] + 1, 1)) - 1

\* the weeks whose start date lies in a calendar month
Members(weeks, key) == { i \in 1..Len(weeks) : monthKey(weeks[i].start) = key }

\* the indices of a set in ascending order
RECURSIVE IdxSeq(_)
IdxSeq(S) ==
    IF S = {} THEN <<>>
    ELSE LET least == CHOOSE i \in S : \A o \in S : i <= o
         IN  <<least>> \o IdxSeq(S \ {least})

\* the month groups expected to be returned: all of them, less the
\* chronologically last one when its last week starts before the final 7 days
\* of that month
ExpectedMonths(weeks) ==
    LET keys      == KeySeq({ monthKey(weeks[i].start) : i \in 1..Len(weeks) })
        last      == keys[Len(keys)]
        lastStart == CHOOSE d \in { weeks[i].start : i \in Members(weeks, last) } :
                        \A i \in Members(weeks, last) : weeks[i].start <= d
    IN  IF lastStart > LastDayOfMonth(last) - 7
        THEN keys
        ELSE SubSeq(keys, 1, Len(keys) - 1)

\* C9: aggregateMonthly drops the chronologically last month group, range and
\* stats, exactly when the start of that group's last week is earlier than the
\* final 7 days of that month; every other group is retained, even one with a
\* single week, and the two returned sequences have the same length.
C9_IncompleteLastMonthDropped ==
    pc = "monthly" =>
        LET expected == ExpectedMonths(weekRanges)
        IN  /\ Len(monthRanges) = Len(monthStats)
            /\ Len(monthRanges) = Len(expected)
            /\ \A j \in 1..Len(monthRanges) :
                  /\ monthKey(monthRanges[j].start) = expected[j]
                  /\ monthRanges[j].start = FirstDayOfMonth(expected[j])

\* a group of a single week is retained while the last group is dropped
\* because its last week starts before the final 7 days of the month
C9_Witness ==
    /\ pc = "monthly"
    /\ LET keys == KeySeq({ monthKey(weekRanges[i].start) : i \in 1..Len(weekRanges) })
       IN  /\ Len(keys) = 2
           /\ Len(monthRanges) = 1
           /\ Len(monthStats) = 1
           /\ monthKey(monthRanges[1].start) = keys[1]
           /\ Cardinality(Members(weekRanges, keys[1])) = 1
           /\ Cardinality(Members(weekRanges, keys[2])) >= 2

\* the values f of the weeks of a set, in week order
ValsOf(stats, S, fieldName) ==
    LET idx == IdxSeq(S) IN [j \in 1..Len(idx) |-> stats[idx[j]][fieldName]]

RECURSIVE SumPRs(_, _)
SumPRs(stats, S) ==
    IF S = {} THEN 0
    ELSE LET i == CHOOSE x \in S : TRUE
         IN  stats[i].prsMerged + SumPRs(stats, S \ {i})

\* C10: for every retained month group prsMerged is the sum over all member
\* weeks, and each rate metric is the median, equal to percentile(., 50), of
\* the values of the member weeks with prsMerged > 0 (for the duration also
\* with a non-sentinel value); with no qualifying week the rate is 0 and the
\* duration median is -1.
C10_MonthlyMediansOfActiveWeeks ==
    pc = "monthly" =>
        \A j \in 1..Len(monthStats) :
            LET mem    == Members(weekRanges, monthKey(monthRanges[j].start))
                active == { i \in mem : allWeekStats[i].prsMerged > 0 }
                timed  == { i \in active : allWeekStats[i].medianReviewSpeed # R(-1) }
                m      == monthStats[j]
            IN  /\ m.prsMerged = SumPRs(allWeekStats, mem)
                /\ m.prsPerEngineer =
                      IF active = {} THEN R(0)
                      ELSE percentile(ValsOf(allWeekStats, active, "prsPerEngineer"), R(50))
                /\ m.pctOnaInvolved =
                      IF active = {} THEN R(0)
                      ELSE percentile(ValsOf(allWeekStats, active, "pctOnaInvolved"), R(50))
                /\ m.pctReverts =
                      IF active = {} THEN R(0)
                      ELSE percentile(ValsOf(allWeekStats, active, "pctReverts"), R(50))
                /\ m.medianReviewSpeed =
                      IF timed = {} THEN R(-1)
                      ELSE percentile(ValsOf(allWeekStats, timed, "medianReviewSpeed"), R(50))

\* a retained month with a week without PRs, a week with PRs but no duration
\* and two weeks with different durations: the medians lie between the values
C10_Witness ==
    /\ pc = "monthly"
    /\ \E j \in 1..Len(monthStats) :
          LET mem == Members(weekRanges, monthKey(monthRanges[j].start))
          IN  /\ Cardinality(mem) = 4
              /\ \E i \in mem : allWeekStats[i].prsMerged = 0
              /\ \E i \in mem : /\ allWeekStats[i].prsMerged > 0
                                /\ allWeekStats[i].medianReviewSpeed = R(-1)
              /\ monthStats[j].prsMerged = 8
              /\ monthStats[j].medianReviewSpeed = Frac(27, 4)
              /\ monthStats[j].prsPerEngineer = R(1)
              /\ monthStats[j].pctOnaInvolved = R(50)

\* the indices of the records of an author
AuthorIdx(prs, login) == { i \in 1..Len(prs) : prs[i].authorLogin = login }

\* the records at the indices S, in record order
RecordsAt(prs, S) == LET ix == IdxSeq(S) IN [k \in 1..Len(ix) |-> prs[ix[k]]]

\* C11: computeTopContributors returns exactly min(N, number of distinct
\* authors) entries, ordered by total PR count descending with ties broken by
\* ascending login, so that no author left out has more PRs than an author
\* included; it returns nothing when N <= 0 or there are no records, and the
\* result does not depend on the order in which the map is iterated.
C11_TopContributorsRanked ==
    pc = "contributors" =>
        LET authors == authorsOf(filtered)
            cs      == contributors
            inc     == { cs[i].login : i \in 1..Len(cs) }
        IN  IF topN <= 0 \/ Len(filtered) = 0 THEN cs = <<>>
            ELSE /\ Len(cs) = (IF topN < Cardinality(authors)
                               THEN topN ELSE Cardinality(authors))
                 /\ inc \subseteq authors
                 /\ Cardinality(inc) = Len(cs)
                 /\ \A i \in 1..Len(cs) :
                       cs[i].totalPRs = Cardinality(AuthorIdx(filtered, cs[i].login))
                 /\ \A i, j \in 1..Len(cs) :
                       i < j => \/ cs[i].totalPRs > cs[j].totalPRs
                                \/ /\ cs[i].totalPRs = cs[j].totalPRs
                                   /\ StringLess(cs[i].login, cs[j].login)
                 /\ \A a \in authors \ inc : \A i \in 1..Len(cs) :
                       Cardinality(AuthorIdx(filtered, a)) <= cs[i].totalPRs
                 /\ \A order \in MapOrders(authors) :
                       computeTopContributors(filtered, weekRanges, topN, order) = cs

\* three authors and N = 2: the author with two PRs first, then the lesser
\* login of the two authors with one PR each; the other one is left out
C11_Witness ==
    /\ pc = "contributors"
    /\ topN = 2
    /\ Cardinality(authorsOf(filtered)) = 3
    /\ Len(contributors) = 2
    /\ contributors[1].login = <<"a", "l">>
    /\ contributors[1].totalPRs = 2
    /\ contributors[2].login = <<"b", "o">>
    /\ contributors[2].totalPRs = 1
    /\ Cardinality(AuthorIdx(filtered, <<"o", "n", "a", "-", "b">>)) = 1

\* C12: for each ranked author Before holds the records merged strictly
\* before the earliest merge timestamp among the author's flag-involved
\* records and After all others, so |Before| + |After| = totalPRs and every
\* flag-involved record is in After; without a flag-involved record all
\* records are Before, After is empty, hasOnaPRs is false and afterRate is 0.
C12_BeforeAfterPartition ==
    pc = "contributors" =>
        \A k \in 1..Len(contributors) :
            LET c   == contributors[k]
                idx == AuthorIdx(filtered, c.login)
                ona == { i \in idx : filtered[i].onaInvolved }
            IN  /\ Len(c.beforePRs) + Len(c.afterPRs) = c.totalPRs
                /\ c.hasOnaPRs = (ona # {})
                /\ IF ona = {}
                   THEN /\ c.beforePRs = RecordsAt(filtered, idx)
                        /\ c.afterPRs = <<>>
                        /\ c.afterRate = R(0)
                   ELSE LET split == CHOOSE t \in { filtered[i].mergedEpoch : i \in ona } :
                                        \A i \in ona : t <= filtered[i].mergedEpoch
                        IN  /\ c.beforePRs = RecordsAt(filtered,
                                   { i \in idx : filtered[i].mergedEpoch < split })
                            /\ c.afterPRs = RecordsAt(filtered,
                                   { i \in idx : filtered[i].mergedEpoch >= split })
                            /\ \A i \in ona :
                                  \E j \in 1..Len(c.afterPRs) : c.afterPRs[j] = filtered[i]
                            /\ \A j \in 1..Len(c.beforePRs) : ~c.beforePRs[j].onaInvolved

\* an author with a record before the split, and after it the flag-involved
\* record and a record without the flag merged at the very same instant
C12_Witness ==
    /\ pc = "contributors"
    /\ \E k \in 1..Len(contributors) :
          LET c == contributors[k]
          IN  /\ c.hasOnaPRs
              /\ Len(c.beforePRs) = 1
              /\ Len(c.afterPRs) = 2
              /\ \E i, j \in 1..2 :
                    /\ c.afterPRs[i].onaInvolved
                    /\ ~c.afterPRs[j].onaInvolved
                    /\ c.afterPRs[i].mergedEpoch = c.afterPRs[j].mergedEpoch

\* the number of week ranges that contain a record of the group
ActiveWeeks(group, weeks) ==
    Cardinality({ w \in 1..Len(weeks) :
                    \E i \in 1..Len(group) : InWeek(group[i].mergedEpoch, weeks[w]) })

\* v is x rounded to a multiple of 1/scale
IsRounded(v, x, scale) ==
    /\ RMul(v, R(scale)).den = 1
    /\ RLe(RSub(v, x), Frac(1, 2 * scale))
    /\ RLe(RSub(x, v), Frac(1, 2 * scale))

\* the rate of a group, as the claim states it
IsRateOf(v, group, weeks) ==
    IF ActiveWeeks(group, weeks) = 0 THEN v = R(0)
    ELSE IsRounded(v, Frac(Len(group), ActiveWeeks(group, weeks)), 100)

\* the 10 records of the example: 4 records without the flag in 4 weeks, then
\* 6 records in the 3 following weeks, the first of them with the flag
RateExampleWeeks == computeWeekRanges(Unix(AggMonday), 7)

RateExamplePRs ==
    LET rec(w, h, ona) == [ mergedEpoch |-> Unix(RateExampleWeeks[w].start) + h * 3600,
                            authorLogin |-> <<"a", "l">>, onaInvolved |-> ona ]
    IN  << rec(1, 1, FALSE), rec(2, 1, FALSE), rec(3, 1, FALSE), rec(4, 1, FALSE),
           rec(5, 1, TRUE), rec(5, 2, FALSE), rec(6, 1, FALSE), rec(6, 2, FALSE),
           rec(7, 1, FALSE), rec(7, 2, FALSE) >>

\* C13: for each ranked author beforeRate and afterRate equal
\* |group| / ActiveWeeks(group) rounded to 2 decimals, and 0 when ActiveWeeks
\* is 0; pctChange equals (afterRate - beforeRate) / beforeRate * 100 rounded
\* to 1 decimal when beforeRate > 0 and 0 otherwise; 4 records over 4 active
\* weeks before and 6 over 3 after give 1.00, 2.00 and +100.0.
C13_RatesAndPctChange ==
    pc = "contributors" =>
        /\ \A k \in 1..Len(contributors) :
              LET c == contributors[k]
              IN  /\ IsRateOf(c.beforeRate, c.beforePRs, weekRanges)
                  /\ IsRateOf(c.afterRate, c.afterPRs, weekRanges)
                  /\ IF RLt(R(0), c.beforeRate)
                     THEN IsRounded(c.pctChange,
                              RMul(RDiv(RSub(c.afterRate, c.beforeRate), c.beforeRate),
                                   R(100)), 10)
                     ELSE c.pctChange = R(0)
        /\ LET ex == computeTopContributors(RateExamplePRs, RateExampleWeeks, 1,
                                            << <<"a", "l">> >>)[1]
           IN  /\ Len(ex.beforePRs) = 4 /\ Len(ex.afterPRs) = 6
               /\ ex.beforeRate = R(1) /\ ex.afterRate = R(2)
               /\ ex.pctChange = R(100)

\* an author with 3 records in one active week before the split and one
\* after: rates 3.00 and 1.00, and -66.666... rounded to -66.7
C13_Witness ==
    /\ pc = "contributors"
    /\ \E k \in 1..Len(contributors) :
          LET c == contributors[k]
          IN  /\ c.beforeRate = R(3)
              /\ c.afterRate = R(1)
              /\ c.pctChange = Frac(-667, 10)

\* the indices of the weeks with PRs
NonEmptyIdx(stats) == { i \in 1..Len(stats) : stats[i].prsMerged > 0 }

RECURSIVE SumPrsAt(_, _)
SumPrsAt(stats, S) ==
    IF S = {} THEN 0
    ELSE LET i == CHOOSE j \in S : TRUE
         IN  stats[i].prsMerged + SumPrsAt(stats, S \ {i})

\* the indices of the weeks with PRs whose prsMerged is at least 10% of the
\* mean prsMerged of the weeks with PRs
ActiveIdx(stats) ==
    LET ne == NonEmptyIdx(stats)
    IN  { i \in ne : 10 * stats[i].prsMerged * Cardinality(ne) >= SumPrsAt(stats, ne) }

RowsNamed(rows, name) == { k \in 1..Len(rows) : rows[k].metric = name }

\* C14: generateStats keeps, in their original order, exactly the weeks with
\* prsMerged > 0 and prsMerged >= 10% of the mean prsMerged of the non-empty
\* weeks; when fewer than 4 weeks remain it returns no row for any metric.
C14_ActivityFilter ==
    pc = "stats" =>
        LET kept == RecordsAt(allWeekStats, ActiveIdx(allWeekStats))
        IN  /\ validWeeksOf(allWeekStats) = kept
            /\ Len(kept) < 4 => statsRows = <<>>
            /\ Len(kept) >= 4 =>
                  /\ statsRows = rowsOf(metrics, kept, windowPct, onaThreshold, periodLabel)
                  /\ onaThreshold = R(0) =>
                        /\ Cardinality(RowsNamed(statsRows, "prs_merged")) = 1
                        /\ \A k \in RowsNamed(statsRows, "prs_merged") :
                              statsRows[k].n = Len(kept)

\* five weeks with PRs, one of them below 10% of the mean and dropped: the
\* rows are computed over the 4 weeks that remain
C14_Witness ==
    /\ pc = "stats"
    /\ onaThreshold = R(0)
    /\ Len(allWeekStats) = 5
    /\ Cardinality(NonEmptyIdx(allWeekStats)) = 5
    /\ Cardinality(ActiveIdx(allWeekStats)) = 4
    /\ \E k \in 1..Len(statsRows) :
          statsRows[k].metric = "prs_merged" /\ statsRows[k].n = 4

\* the values of a metric over the kept weeks that are valid for it
MetricVals(md) ==
    validValues(RecordsAt(allWeekStats, ActiveIdx(allWeekStats)), md)

\* 20 weeks whose prs_per_engineer is 1 in the first 18 and 5 in the last 2
TrendExampleWeeks ==
    [i \in 1..20 |->
        [ prsMerged |-> 10, uniqueAuthors |-> 2,
          prsPerEngineer |-> IF i <= 18 THEN R(1) ELSE R(5),
          commitsPerEngineer |-> R(1), pctReverts |-> R(0), pctOnaInvolved |-> R(0),
          buildRuns |-> 0, buildSuccessPct |-> R(0),
          medianCodingTime |-> R(-1), medianReviewTime |-> R(-1) ]]

TrendExampleRow == buildRow(metrics[3], TrendExampleWeeks, 10, R(0), "week")[1]

\* C15: in positional mode, for a metric with n >= 2 valid values, trendWindow
\* uses windowSize = max(1, floor(n*windowPct/100)), firstAvg is the mean of
\* the first windowSize values and lastAvg the mean of the last windowSize
\* values in time order; every emitted row has a window size >= 1; n = 20 and
\* windowPct = 10 give windowSize 2.
C15_PositionalWindow ==
    /\ (pc = "stats" /\ onaThreshold = R(0)
            /\ Cardinality(ActiveIdx(allWeekStats)) >= 4) =>
          /\ \A k \in 1..Len(statsRows) : statsRows[k].windowSize >= 1
          /\ \A m \in 1..Len(metrics) :
                LET vals == MetricVals(metrics[m])
                    n    == Len(vals)
                    fl   == (n * windowPct) \div 100
                    size == IF fl > 1 THEN fl ELSE 1
                    rs   == RowsNamed(statsRows, metrics[m].name)
                IN  n >= 2 =>
                      /\ Cardinality(rs) = 1
                      /\ \A k \in rs :
                            /\ statsRows[k].n = n
                            /\ statsRows[k].windowSize = size
                            /\ RMul(statsRows[k].firstAvg, R(size))
                                  = SumSeq(SubSeq(vals, 1, size))
                            /\ RMul(statsRows[k].lastAvg, R(size))
                                  = SumSeq(SubSeq(vals, n - size + 1, n))
    /\ pc = "stats" =>
          /\ TrendExampleRow.n = 20
          /\ TrendExampleRow.windowSize = 2
          /\ TrendExampleRow.firstAvg = R(1)
          /\ TrendExampleRow.lastAvg = R(5)

\* five valid weeks and windowPct = 49: a window of 2 weeks on each side whose
\* averages differ; a metric valid in 4 of the weeks has a window of 1
C15_Witness ==
    /\ pc = "stats"
    /\ onaThreshold = R(0)
    /\ windowPct = 49
    /\ \E k, j \in 1..Len(statsRows) :
          /\ statsRows[k].n = 5
          /\ statsRows[k].windowSize = 2
          /\ statsRows[k].firstAvg # statsRows[k].lastAvg
          /\ statsRows[k].firstAvg # MetricVals(metrics[1])[1]
          /\ statsRows[j].n = 4
          /\ statsRows[j].windowSize = 1

\* C16: in threshold mode each metric-valid week is in the below group iff
\* its pctOnaInvolved is strictly less than the threshold and in the at/above
\* group otherwise; firstAvg and lastAvg are the means of the two groups and n
\* is the sum of their sizes; if either group is empty there is no row for
\* the metric.
C16_ThresholdWindow ==
    (pc = "stats" /\ RLt(R(0), onaThreshold)
        /\ Cardinality(ActiveIdx(allWeekStats)) >= 4) =>
        \A m \in 1..Len(metrics) :
            LET md    == metrics[m]
                kept  == RecordsAt(allWeekStats, ActiveIdx(allWeekStats))
                ok    == { i \in 1..Len(kept) : valid(md, kept[i]) }
                below == { i \in ok : RLt(kept[i].pctOnaInvolved, onaThreshold) }
                above == ok \ below
                bv    == RecordsAt(kept, below)
                av    == RecordsAt(kept, above)
                rs    == RowsNamed(statsRows, md.name)
            IN  IF below = {} \/ above = {} THEN rs = {}
                ELSE /\ Cardinality(rs) = 1
                     /\ \A k \in rs :
                           /\ statsRows[k].n = Cardinality(below) + Cardinality(above)
                           /\ statsRows[k].firstWindowSize = Cardinality(below)
                           /\ statsRows[k].lastWindowSize = Cardinality(above)
                           /\ RMul(statsRows[k].firstAvg, R(Cardinality(below)))
                                 = SumSeq([i \in 1..Len(bv) |-> extract(md, bv[i])])
                           /\ RMul(statsRows[k].lastAvg, R(Cardinality(above)))
                                 = SumSeq([i \in 1..Len(av) |-> extract(md, av[i])])

\* threshold 50 with a week at exactly 50% Ona, which is in the at/above
\* group: some metric has a row, and a metric without a week below has none
C16_Witness ==
    /\ pc = "stats"
    /\ onaThreshold = R(50)
    /\ \E i \in ActiveIdx(allWeekStats) : allWeekStats[i].pctOnaInvolved = R(50)
    /\ \E k \in RowsNamed(statsRows, "prs_merged") :
          /\ statsRows[k].firstWindowSize = 1
          /\ statsRows[k].lastWindowSize = 3
    /\ RowsNamed(statsRows, "build_runs") = {}
    /\ Len(MetricVals(metrics[7])) >= 2

\* the text is the number v to one decimal: its sign and its tenths
IsOneDecimalOf(number, v) ==
    /\ number.scale = 10
    /\ number.neg = RLt(v, R(0))
    /\ LET mag == [num |-> Abs(v.num), den |-> v.den]
       IN  /\ RLe(RSub(Frac(number.digits, 10), mag), Frac(1, 20))
           /\ RLe(RSub(mag, Frac(number.digits, 10)), Frac(1, 20))

\* the text is the percentage absChange / |firstAvg| * 100, signed
IsRatioText(t, row) ==
    LET ratio == RMul(RDiv(row.absChange, [num |-> Abs(row.firstAvg.num),
                                           den |-> row.firstAvg.den]), R(100))
    IN  /\ t.unit = "%"
        /\ t.prefix = (IF RLt(ratio, R(0)) THEN "" ELSE "+")
        /\ IsOneDecimalOf(t.number, ratio)

\* the text is the signed absolute change, without a percent sign
IsAbsoluteText(t, row) ==
    /\ t.unit = ""
    /\ t.prefix = (IF RLt(row.absChange, R(0)) THEN "" ELSE "+")
    /\ IsOneDecimalOf(t.number, row.absChange)

\* the text "0.0%"
IsZeroPercentText(t) ==
    t = [prefix |-> "", number |-> [neg |-> FALSE, digits |-> 0, scale |-> 10],
         unit |-> "%"]

AllEqual(vs) == \A i, j \in 1..Len(vs) : vs[i] = vs[j]

MedianOf(vs) ==
    LET s == SortFloat64s(vs)
        n == Len(vs)
    IN  IF n % 2 = 1 THEN s[(n + 1) \div 2]
        ELSE RDiv(RAdd(s[n \div 2], s[(n \div 2) + 1]), R(2))

HighIdx == { i \in 1..Len(xs) : RLt(MedianOf(xs), xs[i]) }

LowIdx == (1..Len(xs)) \ HighIdx

\* twice the U statistic of the low and high groups
TwiceU ==
    2 * Cardinality({ q \in LowIdx \X HighIdx : RLt(ys[q[1]], ys[q[2]]) })
      + Cardinality({ q \in LowIdx \X HighIdx : ys[q[1]] = ys[q[2]] })

\* C19: mannWhitneyU puts index i in the high group iff the grouping value is
\* strictly above the median of the grouping values, and in the low group
\* otherwise; ok is false iff n < 4 or a group is empty, and otherwise U and
\* p are returned with ok true, also for groups of fewer than 8 members.
C19_MedianSplit ==
    pc = "mwu" =>
        /\ mwu.ok = ~(Len(xs) < 4 \/ HighIdx = {} \/ LowIdx = {})
        /\ mwu.ok => /\ mwu.u = Frac(TwiceU, 2)
                     /\ mwu.p.kind \in {"normal", "exact"}
        /\ ~mwu.ok => (mwu.u = R(0) /\ mwu.p = POne)

C19_Witness ==
    /\ pc = "mwu"
    /\ mwu.ok
    /\ Cardinality(HighIdx) < 8
    /\ \E i \in LowIdx : xs[i] = MedianOf(xs)
    /\ mwu.u = Frac(TwiceU, 2)

\* the square of the two-tailed 5% point of the standard normal, 1.959964
NormalCritSq == Frac(3841459, 1000000)

\* p < 0.05
PBelow05(p) ==
    \/ p.kind = "exact" /\ RLt(p.stat, Frac(1, 20))
    \/ p.kind = "normal" /\ RLt(NormalCritSq, p.stat)

LowBelowHigh == \A i \in LowIdx, j \in HighIdx : RLt(ys[i], ys[j])

LowAboveHigh == \A i \in LowIdx, j \in HighIdx : RLt(ys[j], ys[i])

UAtExtreme ==
    /\ LowBelowHigh => mwu.u = R(Cardinality(LowIdx) * Cardinality(HighIdx))
    /\ LowAboveHigh => mwu.u = R(0)

\* C20 as stated: fully separated groups give U at its extreme and p < 0.05
C20_AsStated ==
    (pc = "mwu" /\ mwu.ok /\ (LowBelowHigh \/ LowAboveHigh))
        => (UAtExtreme /\ PBelow05(mwu.p))

\* C20: when the two groups are fully separated on the metric, U is at its
\* extreme (n1*n2 when every low value is below every high value, 0 when
\* every one is above) and the p-value is that of z with
\* z^2 = 3*n1*n2 / (n1+n2+1); it is below 0.05 exactly when z^2 exceeds
\* 1.959964^2, which needs groups of at least 3 and 3 (2 and 2 give z^2 = 2.4).
C20_SeparatedGroups ==
    (pc = "mwu" /\ mwu.ok /\ (LowBelowHigh \/ LowAboveHigh))
        => LET n1 == Cardinality(LowIdx)
               n2 == Cardinality(HighIdx)
           IN  /\ UAtExtreme
               /\ mwu.p = [kind |-> "normal", df |-> 0,
                           stat |-> Frac(3 * n1 * n2, n1 + n2 + 1)]
               /\ PBelow05(mwu.p) <=> RLt(NormalCritSq, Frac(3 * n1 * n2, n1 + n2 + 1))
               /\ (n1 < 3 /\ n2 < 3) => ~PBelow05(mwu.p)
               /\ (n1 = 3 /\ n2 = 3) => PBelow05(mwu.p)

C20_Witness ==
    /\ pc = "mwu"
    /\ mwu.ok
    /\ LowBelowHigh
    /\ Cardinality(LowIdx) = 3
    /\ Cardinality(HighIdx) = 3
    /\ mwu.u = R(9)
    /\ PBelow05(mwu.p)

-----------------------------------------------------------------------------
(* Claims about interpretPValue *)

\* C21: interpretPValue gives every p-value exactly one label: "significant"
\* iff p < 0.05, "marginal" iff 0.05 <= p < 0.10, "not_significant" iff
\* p >= 0.10; so 0.05 is marginal and 0.10 is not significant.
C21_InterpretPValue ==
    pc = "interp" =>
        /\ interp.label \in {"significant", "marginal", "not_significant"}
        /\ (interp.label = "significant") <=> (20 * interp.p.num < interp.p.den)
        /\ (interp.label = "marginal")
              <=> (20 * interp.p.num >= interp.p.den /\ 10 * interp.p.num < interp.p.den)
        /\ (interp.label = "not_significant") <=> (10 * interp.p.num >= interp.p.den)
        /\ interp.p = Frac(1, 20) => interp.label = "marginal"
        /\ interp.p = Frac(1, 10) => interp.label = "not_significant"

C21_Witness ==
    /\ pc = "interp"
    /\ interp.p = Frac(1, 20)
    /\ interp.label = "marginal"

-----------------------------------------------------------------------------
(* Claims about the consolidated stats CSV *)

\* the metric definition of a row
CsvMetricNamed(name) ==
    csvMetrics[CHOOSE k \in 1..Len(csvMetrics) : csvMetrics[k].name = name]

\* the kept weeks that are valid for a metric, in week order
PairedWeeks(md) ==
    RecordsAt(allWeekStats,
              { i \in ActiveIdx(allWeekStats) : valid(md, allWeekStats[i]) })

\* the Pearson test on the pairs (pctOnaInvolved, metric value) of those weeks
PairedPearson(md) ==
    LET ws == PairedWeeks(md)
    IN  pearsonCorrelation([j \in 1..Len(ws) |-> ws[j].pctOnaInvolved],
                           [j \in 1..Len(ws) |-> extract(md, ws[j])])

\* C22: buildRow attaches r-squared, the Pearson p-value and the significance
\* label to a row iff the metric is not pct_ona_involved and at least 4 weeks
\* are valid for the metric; the two samples are the pctOnaInvolved and the
\* metric value of the same weeks; the label is that of the Pearson p-value;
\* otherwise the significance fields are empty.
C22_OnaFields ==
    pc = "csvstats" =>
        \A k \in 1..Len(statsRows) :
            LET row == statsRows[k]
                md  == CsvMetricNamed(row.metric)
            IN  IF row.metric # "pct_ona_involved" /\ Len(PairedWeeks(md)) >= 4
                THEN /\ row.r2Ona = <<FormatFixed(PairedPearson(md).r.sq, 10000)>>
                     /\ row.pPearsonOna = formatP(PairedPearson(md).p)
                     /\ row.sigOna = interpretP(PairedPearson(md).p)
                     /\ row.sigOna \in {"significant", "marginal", "not_significant"}
                ELSE /\ row.r2Ona = <<>>
                     /\ row.pPearsonOna = <<>>
                     /\ row.pMannWhitneyOna = <<>>
                     /\ row.sigOna = ""

C22_Witness ==
    /\ pc = "csvstats"
    /\ \E k \in 1..Len(statsRows) :
          /\ statsRows[k].metric = "median_review_speed_hours"
          /\ statsRows[k].r2Ona # <<>>
          /\ statsRows[k].sigOna = "significant"
          /\ Len(PairedWeeks(CsvMetricNamed("median_review_speed_hours")))
                < Cardinality(ActiveIdx(allWeekStats))
    /\ \E k \in 1..Len(statsRows) :
          /\ statsRows[k].metric = "pct_ona_involved"
          /\ statsRows[k].sigOna = ""

-----------------------------------------------------------------------------
(* Claims about regIncBeta *)

-----------------------------------------------------------------------------
(* Claims about fetchAllPRs *)

\* the weeks whose goroutine is in fetchWeekPRs or waits for the lock
FetchRunning ==
    IF fetch.pc = "idle" THEN {}
    ELSE { w \in 1..FetchWeeks : fetch.worker[w] = "fetch" }

\* the PR numbers returned by the fetches of the weeks in S
FetchedBy(S) == UNION { { fetchWeekPRs(w)[i] : i \in 1..Len(fetchWeekPRs(w)) } : w \in S }

\* a sequence holds every element of S exactly once and nothing else
HoldsOnce(seq, S) ==
    /\ Len(seq) = Cardinality(S)
    /\ \A v \in S : \E i \in 1..Len(seq) : seq[i] = v

\* C24: in fetchAllPRs at most maxConcurrency (10) fetchWeekPRs calls run at
\* any moment; the function returns only after the fetch of every week has
\* finished; and the returned list holds each PR of each week's fetch exactly
\* once, in whatever order the goroutines appended.
C24_BoundedCompleteFetch ==
    fetch.pc # "idle" =>
        /\ Cardinality(FetchRunning) <= maxConcurrency
        /\ HoldsOnce(fetch.allPRs,
                     FetchedBy({ w \in 1..FetchWeeks : fetch.worker[w] = "done" }))
        /\ fetch.pc = "returned" =>
              /\ \A w \in 1..FetchWeeks : fetch.worker[w] = "done"
              /\ HoldsOnce(allPRs, FetchedBy(1..FetchWeeks))

C24_Witness ==
    /\ pc = "fetched"
    /\ fetch.pc = "returned"
    /\ FetchWeeks > maxConcurrency
    /\ allPRs = <<31, 21, 11, 12>>

-----------------------------------------------------------------------------
(* Claims about graphqlQuery *)

\* the response of an attempt parses, is not RATE_LIMITED and has data
GqlUsable(o) ==
    ~o.doErr /\ ~o.readErr /\ o.parses /\ ~o.rateLimited /\ o.data = "data"

\* the attempt passes every check of the loop body: it is usable and its
\* HTTP status is neither 5xx nor 429
GqlAccepted(o) == GqlUsable(o) /\ o.status < 500 /\ o.status # 429

GqlOutcomesSeen == { gql.outcomes[i] : i \in 1..Len(gql.outcomes) }

\* what holds whatever "the attempt succeeds" means: the cap, the error
\* after maxRetries failures, and the shape of the returned pair
GqlReturnShape ==
    /\ Len(gql.outcomes) <= maxRetries
    /\ gql.pc = "returned" =>
          /\ (gql.resp = <<>>) # (gql.err = <<>>)
          /\ gql.resp # <<>> => gql.resp[1].data = "data"
          /\ gql.err # <<>> => Len(gql.outcomes) = maxRetries

-----------------------------------------------------------------------------
(* Claims about the monthly author count *)

RECURSIVE SumAuthors(_, _)
SumAuthors(stats, S) ==
    IF S = {} THEN 0
    ELSE LET i == CHOOSE x \in S : TRUE
         IN  stats[i].uniqueAuthors + SumAuthors(stats, S \ {i})

\* C26 as stated: uniqueAuthors of a month is the sum of the weekly
\* unique-author counts of the month's weeks, like prsMerged
C26_AsStated ==
    pc = "monthly" =>
        \A j \in 1..Len(monthStats) :
            LET mem == Members(weekRanges, monthKey(monthRanges[j].start))
            IN  monthStats[j].uniqueAuthors = SumAuthors(allWeekStats, mem)

-----------------------------------------------------------------------------
(* Claims about the active weeks of the two groups *)

\* the weeks that contain a record of the group
WeeksWith(group, weeks) ==
    { w \in 1..Len(weeks) :
        \E i \in 1..Len(group) : InWeek(group[i].mergedEpoch, weeks[w]) }

\* the earliest merge timestamp among the flag-involved records
SplitEpoch(group) ==
    CHOOSE t \in { group[i].mergedEpoch : i \in { j \in 1..Len(group) : group[j].onaInvolved } } :
        \A i \in 1..Len(group) : group[i].onaInvolved => t <= group[i].mergedEpoch

WeeksDisjoint(weeks) ==
    \A v, w \in 1..Len(weeks) : v # w =>
        (weeks[v].end < weeks[w].start \/ weeks[w].end < weeks[v].start)

\* C27: with pairwise-disjoint week ranges, for every ranked author a week is
\* counted as active for both Before and After only if it contains the
\* author's split timestamp, so ActiveWeeks(Before) + ActiveWeeks(After) is at
\* least the number of weeks containing any record of the author and at most
\* that number plus one.
C27_ActiveWeeksOfSplit ==
    (pc = "contributors" /\ WeeksDisjoint(weekRanges)) =>
        \A k \in 1..Len(contributors) :
            LET c    == contributors[k]
                all  == RecordsAt(filtered, AuthorIdx(filtered, c.login))
                any  == WeeksWith(all, weekRanges)
                both == WeeksWith(c.beforePRs, weekRanges)
                           \cap WeeksWith(c.afterPRs, weekRanges)
            IN  /\ c.beforeActive = Cardinality(WeeksWith(c.beforePRs, weekRanges))
                /\ c.afterActive = Cardinality(WeeksWith(c.afterPRs, weekRanges))
                /\ \A w \in both :
                      c.hasOnaPRs /\ InWeek(SplitEpoch(all), weekRanges[w])
                /\ c.beforeActive + c.afterActive = Cardinality(any) + Cardinality(both)
                /\ c.beforeActive + c.afterActive >= Cardinality(any)
                /\ c.beforeActive + c.afterActive <= Cardinality(any) + 1

\* an author whose split week holds records of both groups, with a further
\* active week after it: 1 + 2 active weeks over 2 weeks with records
C27_Witness ==
    /\ pc = "contributors"
    /\ Len(weekRanges) >= 2
    /\ \E k \in 1..Len(contributors) :
          LET c == contributors[k]
          IN  /\ c.hasOnaPRs
              /\ c.beforeActive = 1
              /\ c.afterActive = 2
              /\ Cardinality(WeeksWith(c.beforePRs \o c.afterPRs, weekRanges)) = 2
              /\ Len(c.afterPRs) = 3

-----------------------------------------------------------------------------
(* Claims about the sizes of the two groups *)

\* the groups mannWhitneyU forms from the samples of the state
LowGroup == groupOf(xs, ys, percentile(SortFloat64s(xs), R(50)), FALSE)

HighGroup == groupOf(xs, ys, percentile(SortFloat64s(xs), R(50)), TRUE)

\* how many grouping values equal the greatest one
AtMaximum == Cardinality({ i \in 1..Len(xs) : \A j \in 1..Len(xs) : RLe(xs[j], xs[i]) })

\* the low group is never empty, the high group has at most floor(n/2)
\* members, and the test is not computable exactly when no grouping value
\* is strictly greater than the median
GroupSizes ==
    /\ Len(LowGroup) >= 1
    /\ Len(HighGroup) <= Len(xs) \div 2
    /\ Len(LowGroup) + Len(HighGroup) = Len(xs)
    /\ ~mwu.ok <=> \A i \in 1..Len(xs) : ~RLt(MedianOf(xs), xs[i])

\* C28 as stated: the test is not computable, for instance, when at least
\* half of the grouping values tie at the maximum
C28_AsStated ==
    (pc = "mwu" /\ Len(xs) >= 4) =>
        /\ GroupSizes
        /\ 2 * AtMaximum >= Len(xs) => ~mwu.ok

\* C28: in mannWhitneyU with n >= 4 the low group is never empty and the
\* high group never has more than floor(n/2) members, so the test is not
\* computable exactly when no grouping value is strictly greater than the
\* median, for instance when more than half of the values tie at the maximum.
C28_GroupSizes ==
    (pc = "mwu" /\ Len(xs) >= 4) =>
        /\ GroupSizes
        /\ 2 * AtMaximum > Len(xs) => ~mwu.ok

\* three of five grouping values tie at the maximum above two smaller ones:
\* the median is the maximum, the high group is empty, nothing is computed
C28_Witness ==
    /\ pc = "mwu"
    /\ Len(xs) = 5
    /\ AtMaximum = 3
    /\ Len(HighGroup) = 0
    /\ Len(LowGroup) = 5
    /\ ~mwu.ok

-----------------------------------------------------------------------------
(* Claims about the two windows of trendWindow *)

\* the number of values of each metric that trendWindow reads
TrendCounts(validWeeks) ==
    [k \in 1..Len(metrics) |-> Len(validValues(validWeeks, metrics[k]))]

RowsOfMetric(k) ==
    { j \in 1..Len(statsRows) : statsRows[j].metric = metrics[k].name }

\* the two windows of size windowSize over n values share no index, and
\* every index read is an index of the values
WindowsApart(n, windowSize) ==
    /\ firstWindow(n, windowSize) \cap lastWindow(n, windowSize) = {}
    /\ firstWindow(n, windowSize) \cup lastWindow(n, windowSize) \subseteq 0..(n - 1)
    /\ firstWindow(n, windowSize) # {}
    /\ lastWindow(n, windowSize) # {}

\* the windows of every count of at least 2 at every windowPct, and the rows
\* of the metrics with these counts
WindowsOfCounts(counts) ==
    /\ \A n \in { counts[k] : k \in 1..Len(metrics) } :
          n >= 2 => \A wpct \in 1..49 : WindowsApart(n, windowSizeOf(n, wpct))
    /\ \A k \in 1..Len(metrics) :
          /\ counts[k] < 2 => RowsOfMetric(k) = {}
          /\ \A j \in RowsOfMetric(k) :
                /\ statsRows[j].n = counts[k]
                /\ counts[k] >= 2
                /\ statsRows[j].windowSize = windowSizeOf(counts[k], windowPct)
                /\ WindowsApart(counts[k], statsRows[j].windowSize)

\* C29: for every windowPct in [1,49] and every n >= 2 the first window and
\* the last window of trendWindow share no index and every index read lies
\* inside the value sequence; a metric with fewer than 2 valid values yields
\* no row.
C29_WindowsApart ==
    (pc = "stats" /\ onaThreshold = R(0)) =>
        WindowsOfCounts(TrendCounts(validWeeksOf(allWeekStats)))

\* five values at 49 percent: the windows are the first two and the last two
\* indices; a metric with one valid week has no row among the rows returned
C29_Witness ==
    /\ pc = "stats"
    /\ onaThreshold = R(0)
    /\ windowPct = 49
    /\ \E j \in 1..Len(statsRows) :
          /\ statsRows[j].n = 5
          /\ statsRows[j].windowSize = 2
          /\ firstWindow(5, statsRows[j].windowSize) = {0, 1}
          /\ lastWindow(5, statsRows[j].windowSize) = {3, 4}
    /\ \E k \in 1..Len(metrics) :
          /\ TrendCounts(validWeeksOf(allWeekStats))[k] = 1
          /\ RowsOfMetric(k) = {}

-----------------------------------------------------------------------------
(* Claims about the window description *)

\* C30 as stated: generateHTML describes the comparison as a threshold split
\* for every row sequence that buildRow produced in threshold mode, and as
\* first/last date ranges only for row sequences produced in positional
\* mode; in the positional case the week indices read stay within the week
\* list
C30_AsStated ==
    (pc = "html" /\ statsRows # <<>>) =>
        LET d == html.windowDesc[1]
        IN  /\ Len(html.windowDesc) = 1
            /\ statsRows[1].window.mode = "threshold" =>
                  (d.kind = "split" /\ d.window = statsRows[1].window)
            /\ d.kind = "dates" =>
                  /\ statsRows[1].window.mode = "positional"
                  /\ { d.firstStart, d.firstEnd, d.lastStart, d.lastEnd }
                        \subseteq 0..(Len(allWeekStats) - 1)

====
